---- MODULE Spec2Model ----
(***************************************************************************)
(* Model of the sortface worker: the supervisor loop (worker/runner.py),   *)
(* the stream-commit batch engine (engine/batch_engine.py), the fan-out    *)
(* routing (engine/routing.py) and the job / batch catalog (db/jobs.py).   *)
(*                                                                         *)
(* The catalog (job_status, batches, image_results, commit_log) and the    *)
(* file trees (outfs, staging) are durable; the supervisor's position and  *)
(* locals and the per-image tasks of the current chunk are lost when the   *)
(* worker process is killed.  The coroutines of one chunk interleave at    *)
(* their await points only, so the code between two awaits is one action.  *)
(***************************************************************************)
EXTENDS Naturals, Integers, Sequences, FiniteSets, TLC

\* ------------------------------------------------------------------ bounds
NumImages == 3
NumPersons == 2
BatchSize == 2
WorkerCount == 2
MaxKills == 1
MaxOps == 3
MaxFaults == 1
MaxImageCount == 12
MaxBatchSize == 5
NumCallers == 2
MaxAdds == 4
MaxClock == 2
MaxRestarts == 1
max_embeddings_per_person == 2

\* ------------------------------------------------------- program constants
TERMINATE_CHUNK == 10
hash_chars == 12
HashLen == 14
Stems == {1, 2}

Images == 1..NumImages
Persons == 1..NumPersons
Callers == 1..NumCallers

Min(a, b) == IF a < b THEN a ELSE b
Max(a, b) == IF a > b THEN a ELSE b
SetMin(S) == CHOOSE x \in S : \A y \in S : x <= y

\* ------------------------------------------------------------ source tree
\* The source tree is fixed.  Image 2 is a byte-identical copy of image 1
\* kept in another directory under the same file name; every other image
\* has its own stem and its own bytes.
SourceBytes(i) == IF i = 2 THEN 1 ELSE i
Stem(i) == IF i = 2 THEN 1 ELSE i

\* compute_file_hash: a function of the bytes only (equal bytes, equal hash).
compute_file_hash(bytes) == <<bytes, 7, bytes + 1>>

\* The persons the matcher resolves in an image, as a function of its bytes:
\* images 1 and 2 show persons 1 and 2, image 4 shows person 2 only, every
\* other image shows nobody the registry knows.
FaceMatch(i) ==
    IF SourceBytes(i) = 1 THEN {p \in Persons : p <= 2}
    ELSE IF SourceBytes(i) = 4 THEN {p \in Persons : p = 2}
    ELSE {}

\* Variant: the whole digest goes into the name.
generate_deterministic_filename_full(original_stem, file_hash) ==
    <<original_stem, file_hash>>

\* generate_deterministic_filename: "{stem}__{hash[:12]}.jpg"
generate_deterministic_filename(original_stem, file_hash) ==
    <<original_stem, SubSeq(file_hash, 1, Min(hash_chars, Len(file_hash)))>>

OutputFilename(i) ==
    generate_deterministic_filename(Stem(i), compute_file_hash(SourceBytes(i)))

FileNames == {OutputFilename(i) : i \in Images}

\* output_root / person.output_folder_rel / output_filename, and the name
\* output_path.with_suffix(".tmp") the copy is first written under.
output_path(p, i) == <<p, OutputFilename(i), "jpg">>
temp_output(p, i) == <<p, OutputFilename(i), "tmp">>
\* The folders under output_root: one per person, and folder 0 for
\* output_root / group_folder_name.
Folders == 0..NumPersons
OutputPaths == Folders \X FileNames \X {"jpg", "tmp"}
LogPaths == Folders \X FileNames

\* ------------------------------------------------------------------ state
VARIABLES
    job_status,        \* job_config.job_status
    batches,           \* rows of table batches, batch_id = index
    image_results,     \* image_id -> the row of image_results, or NoResult
    commit_log,        \* (person, filename) -> 0 no entry, 1 pending, 2 verified
    outfs,             \* files under output_root: absent / partial / complete
    staging,           \* file names present in the staging directory
    wpc,               \* the supervisor's position in WorkerRunner.run
    job_initialized,   \* WorkerRunner._job_initialized
    batch,             \* the local `batch` of WorkerRunner.run
    run_job_status,    \* the local `job_status` of WorkerRunner.run
    tasks,             \* the process_and_commit_single coroutines of the chunk
    chunk_start,       \* the loop index i of process_batch
    kills,             \* number of times the worker process was killed
    ops,               \* number of operator commands issued
    faults,            \* number of injected I/O or catalog errors
    clobbered,         \* history: paths written while a file existed there
    at_start,          \* history: the catalog and tree the worker started on
    stop_pending,      \* history: batch during which a stop was issued, else 0
    n_images,          \* number of rows of table images (ordering_idx 0..n-1)
    atomic_batch_size, \* settings.atomic_batch_size
    persons,           \* person_id of the rows of table persons
    person_embeddings, \* rows of table person_embeddings
    person_centroids,  \* person_id -> embedding_count of its centroid row, or 0
    durable,           \* the registry tables as last committed to the file
    in_transaction,    \* the shared connection has an open transaction
    calls,             \* the coroutines that are inside a catalog operation
    now,               \* the clock behind created_at
    next_embedding_id, \* the next rowid of person_embeddings
    added,             \* history: the embeddings inserted by finished adds
    restarts,          \* number of times the process using the registry died
    centroids_cache,   \* FaceMatcher._centroids_cache: person_id in load order
    matching,          \* the calls of FaceMatcher.match and their locals
    cache_sees,        \* history: the finished adds when the cache was loaded
    job_config,        \* the row of table job_config, job_status apart
    heartbeat_pc,      \* the position of the task _heartbeat_loop
    naming,            \* two source files and the output names made for them
    start_request,     \* the request POST /start-job that is being served
    raw_images,        \* the images of the source tree that are .arw files
    temp_files,        \* the files present in settings.temp_dir
    temp_path,         \* the local temp_path of each call of _process_image
    settings,          \* config.settings: the CPU-usage policy, and os.cpu_count()
    total_images,      \* BatchEngine.total_images
    jobs,              \* the row of table jobs: total_images, processed_images
    process_results_all \* the length of the list of that name in process_batch

vars == <<job_status, batches, image_results, commit_log, outfs, staging, wpc,
          job_initialized, batch, run_job_status, tasks, chunk_start, kills,
          ops, faults, clobbered, at_start, stop_pending, n_images,
          atomic_batch_size, persons, person_embeddings, person_centroids,
          durable, in_transaction, calls, now, next_embedding_id, added,
          restarts, centroids_cache, matching, cache_sees, job_config,
          heartbeat_pc, naming, start_request, raw_images, temp_files,
          temp_path, settings, total_images, jobs, process_results_all>>

catalog == <<job_status, batches, image_results, commit_log>>
files == <<outfs, staging>>
env == <<kills, ops, faults>>
history == <<clobbered, at_start, stop_pending>>
ingest == <<n_images, atomic_batch_size>>
tables == <<persons, person_embeddings, person_centroids>>
registry == <<tables, durable, in_transaction, calls, now, next_embedding_id,
              added, restarts>>
pipeline == <<catalog, files, wpc, job_initialized, batch, run_job_status,
              tasks, chunk_start, env, history>>
matcher == <<centroids_cache, matching, cache_sees>>
service == <<job_config, heartbeat_pc, naming, start_request>>
scratch == <<raw_images, temp_files, temp_path, settings>>
progress == <<total_images, jobs>>
aside == <<matcher, service, scratch>>
beside == <<aside, progress, process_results_all>>

\* Variant: the cache is not filtered by the selection.
selected_all(ids) == ids

\* The matcher caches the centroids of the selected persons only (of every
\* person when none is selected), so only those are matched.
selected(ids) ==
    IF job_config.selected_person_ids = {} THEN ids
    ELSE ids \cap job_config.selected_person_ids

\* len(faces): every image of the source tree shows the persons of
\* FaceMatch, or one face of somebody the registry does not know.
face_count(i) == IF FaceMatch(i) = {} THEN 1 ELSE Cardinality(FaceMatch(i))

\* No row of image_results for an image, and the row of a saved result.
NoResult ==
    [saved |-> FALSE, matched_person_ids |-> {}, face_count |-> 0,
     unknown_count |-> 0]
Result(im, ids) ==
    [saved |-> TRUE, matched_person_ids |-> ids, face_count |-> face_count(im),
     unknown_count |-> face_count(im) - Cardinality(selected(FaceMatch(im)))]
\* The row saved for an image that could not be decoded or analysed.
ZeroFaceResult ==
    [saved |-> TRUE, matched_person_ids |-> {}, face_count |-> 0,
     unknown_count |-> 0]
\* The local `batch` of run: not yet bound, and the empty list that
\* get_pending_batches returns when nothing is PENDING; otherwise a batch_id.
NoBatch == 0
EmptyList == -1
\* The local `job_status` of run before its first assignment.
Unbound == "unbound"

IdleTask == [pc |-> "idle", person |-> 0, outcomes |-> {}, again |-> FALSE]

\* ----------------------------------------------------------- db/jobs.py
RECURSIVE create_batches_from(_, _, _)
create_batches_from(start_idx, max_idx, batch_size) ==
    IF start_idx > max_idx THEN <<>>
    ELSE LET end_idx == Min(start_idx + batch_size - 1, max_idx)
         IN <<[start_idx |-> start_idx, end_idx |-> end_idx, state |-> "PENDING"]>>
            \o create_batches_from(end_idx + 1, max_idx, batch_size)

\* Variant: the image count is taken for the largest ordering_idx.
create_batches_count(image_count, batch_size) ==
    IF image_count = 0 THEN <<>>
    ELSE create_batches_from(0, image_count, batch_size)

\* create_batches: max_idx is MAX(ordering_idx), None when there is no image.
create_batches(image_count, batch_size) ==
    IF image_count = 0 THEN <<>>
    ELSE create_batches_from(0, image_count - 1, batch_size)

\* get_images_for_batch: ordering_idx of image i is i - 1.
get_images_for_batch(b) ==
    {i \in Images : /\ i - 1 >= batches[b].start_idx
                    /\ i - 1 <= batches[b].end_idx}

get_batches_by_state(s) == {b \in DOMAIN batches : batches[b].state = s}

\* Variant: the query finds no batch.
get_pending_batches_none == {}

\* get_pending_batches(limit=1): ORDER BY batch_id LIMIT 1
get_pending_batches == get_batches_by_state("PENDING")

\* Variant: every update stamps the batch COMMITTED.
update_batch_state_committed(rows, b, s) ==
    IF b \in DOMAIN rows THEN [rows EXCEPT ![b].state = "COMMITTED"] ELSE rows

update_batch_state(rows, b, s) ==
    IF b \in DOMAIN rows THEN [rows EXCEPT ![b].state = s] ELSE rows

\* create_job: the row that INSERT INTO jobs (source_root, output_root) makes,
\* its two counts at their default.
create_job == [total_images |-> 0, processed_images |-> 0]

\* SELECT COUNT(*) FROM batches WHERE job_id = ? AND state = 'COMMITTED'
get_committed_batch_count(rows) ==
    Cardinality({b \in DOMAIN rows : rows[b].state = "COMMITTED"})

\* BatchEngine._update_job_progress, called with the length of the batch's
\* list of results: the row of jobs after update_job_image_counts.
update_job_progress(rows, total, batch_result_count) ==
    LET processed == (get_committed_batch_count(rows) - 1) * atomic_batch_size
                        + batch_result_count
    IN [total_images |-> total,
        processed_images |-> IF processed > total THEN total ELSE processed]

\* ------------------------------------------------------------------ init
\* What the history variable at_start keeps of the state a worker process
\* starts on: the batches it finds PROCESSING and COMMITTING, the existing files.
Snapshot(rows, tree) ==
    [processing |-> {b \in DOMAIN rows : rows[b].state = "PROCESSING"},
     committing |-> {b \in DOMAIN rows : rows[b].state = "COMMITTING"},
     existing |-> {d \in DOMAIN tree : tree[d] # "absent"}]

FreshTree == [d \in OutputPaths |-> "absent"]

\* The source tree of the job and the configured batch size.
InitIngest ==
    /\ n_images = NumImages
    /\ atomic_batch_size = BatchSize

\* A coroutine that is in no catalog operation.
IdleCall ==
    [op |-> "none", pc |-> "idle", person_id |-> 0, embedding_id |-> 0,
     count |-> 0]

NoTables ==
    [persons |-> {}, person_embeddings |-> {},
     person_centroids |-> [p \in Persons |-> 0]]

\* The registry after init_database on a new file: no person.
InitRegistry ==
    /\ persons = {}
    /\ person_embeddings = {}
    /\ person_centroids = [p \in Persons |-> 0]
    /\ durable = NoTables
    /\ in_transaction = FALSE
    /\ calls = [c \in Callers |-> IdleCall]
    /\ now = 0
    /\ next_embedding_id = 1
    /\ added = {}
    /\ restarts = 0

\* The settings the other runs are made with: a custom policy of
\* WorkerCount workers on a machine with as many cores.
DefaultSettings ==
    [cpu_usage_mode |-> "custom", max_parallel_workers |-> WorkerCount,
     enable_parallel_processing |-> TRUE, cpu_count |-> WorkerCount]

\* temp_path of _process_image while no temporary JPEG has been made (None).
NoTemp == 0

\* The scratch directory is empty and no image is being analysed.
InitScratch ==
    /\ temp_files = {}
    /\ temp_path = [im \in Images |-> NoTemp]
    /\ total_images = 0
    /\ jobs = create_job
    /\ process_results_all = 0

\* FaceMatcher._centroids_cache before the first refresh_centroids (None).
NoCache == <<0>>

\* A coroutine that is not inside FaceMatcher.match.
IdleMatch ==
    [pc |-> "idle", face |-> [p \in Persons |-> 0], learn_on_strict |-> FALSE,
     distances |-> <<>>, person_id |-> 0, match_type |-> "none",
     missed |-> {}]

\* FaceMatcher.__init__: no centroid is cached.
InitMatcher ==
    /\ centroids_cache = NoCache
    /\ matching = [c \in Callers |-> IdleMatch]
    /\ cache_sees = {}

\* No output name has been asked for.
NoNaming == [stems |-> <<>>, hashes |-> <<>>, names |-> <<>>]

\* The job_config row of a configured job: both roots set, every person
\* searched for, no group mode.  A root is "" while it is not configured,
\* selected_person_ids is {} for None and group_folder_name is "" for None.
Configured ==
    [source_root |-> "source", output_root |-> "output",
     selected_person_ids |-> {}, group_mode |-> FALSE, group_folder_name |-> ""]

\* No POST /start-job is being served.
NoRequest ==
    [pc |-> "idle", config |-> Configured, persons |-> {}, response |-> "none"]

\* The operator has configured the job; the worker process is starting and
\* its heartbeat task is about to be created.
InitService ==
    /\ job_config = Configured
    /\ heartbeat_pc = "created"
    /\ start_request = NoRequest

InitWorker ==
    /\ job_status = "configured"
    /\ batches = <<>>
    /\ image_results = [i \in Images |-> NoResult]
    /\ commit_log = [d \in LogPaths |-> 0]
    /\ outfs = FreshTree
    /\ staging = {}
    /\ wpc = "resume"
    /\ job_initialized = FALSE
    /\ batch = NoBatch
    /\ run_job_status = Unbound
    /\ tasks = [i \in Images |-> IdleTask]
    /\ chunk_start = 0
    /\ kills = 0
    /\ ops = 0
    /\ faults = 0
    /\ clobbered = {}
    /\ at_start = Snapshot(<<>>, FreshTree)
    /\ stop_pending = 0
    /\ InitIngest
    /\ InitRegistry
    /\ InitMatcher
    /\ InitScratch
    /\ InitService

\* The worker process starts on a configured job and a new catalog.
Init ==
    /\ InitWorker
    /\ naming = NoNaming
    /\ raw_images = {}
    /\ settings = DefaultSettings

\* ------------------------------------------------ worker/runner.py: run
\* _resume_interrupted, first half: every PROCESSING batch is reset to
\* PENDING.  The second half (COMMITTING batches) is resume_commit_batch below.
ResetProcessing_none(rows) == rows

ResetProcessing(rows) ==
    [b \in DOMAIN rows |->
        IF rows[b].state = "PROCESSING"
        THEN [rows[b] EXCEPT !.state = "PENDING"] ELSE rows[b]]

resume_interrupted ==
    /\ wpc = "resume"
    /\ batches' = ResetProcessing(batches)
    /\ wpc' = IF get_batches_by_state("COMMITTING") # {}
              THEN "resume_commit" ELSE "loop"
    /\ UNCHANGED <<job_status, image_results, commit_log, files,
                   job_initialized, batch, run_job_status, tasks, chunk_start,
                   env, history, ingest, beside, registry>>

\* Variant: the supervisor goes on whatever the status it read.
may_process_always(status) == TRUE

\* `if job_status != "running": ... continue`
may_process(status) == status = "running"

\* Top of the main loop: get_job_status, then the code up to the next await.
\* source_root and output_root stay configured throughout.
run_poll ==
    /\ wpc = "loop"
    /\ run_job_status' = job_status
    /\ IF job_status = "terminating"
       THEN /\ wpc' = "set_job_status"
            /\ UNCHANGED job_initialized
       ELSE IF ~ may_process(job_status)
       THEN /\ job_initialized' = FALSE
            /\ wpc' = "loop"
       ELSE /\ wpc' = IF job_initialized THEN "get_pending" ELSE "clear"
            /\ UNCHANGED job_initialized
    /\ UNCHANGED <<catalog, files, batch, tasks, chunk_start, env, history,
                   ingest, beside, registry>>

\* await set_job_status("stopped") after job_status was read as terminating.
run_set_stopped ==
    /\ wpc = "set_job_status"
    /\ job_status' = "stopped"
    /\ run_job_status' = "stopped"
    /\ job_initialized' = FALSE
    /\ wpc' = "loop"
    /\ UNCHANGED <<batches, image_results, commit_log, files, batch, tasks,
                   chunk_start, env, history, ingest, beside, registry>>

\* _clear_old_job_data: the rows of the previous job are deleted.
clear_old_job_data ==
    /\ wpc = "clear"
    /\ batches' = <<>>
    /\ image_results' = [i \in Images |-> NoResult]
    /\ commit_log' = [d \in LogPaths |-> 0]
    /\ wpc' = "discover"
    /\ UNCHANGED <<job_status, files, job_initialized, batch, run_job_status,
                   tasks, chunk_start, env, history, ingest, beside, registry>>

\* BatchEngine.discover_images: catalog the source tree and cut the batches.
discover_images ==
    /\ wpc = "discover"
    /\ batches' = create_batches(NumImages, BatchSize)
    /\ job_initialized' = TRUE
    /\ total_images' = NumImages
    /\ jobs' = create_job
    /\ wpc' = "get_pending"
    /\ UNCHANGED <<job_status, image_results, commit_log, files, batch,
                   run_job_status, tasks, chunk_start, env, history, ingest, aside, process_results_all,
                   registry>>

\* batch = await get_pending_batches(limit=1); if not batch: ... completed
run_get_pending ==
    /\ wpc = "get_pending"
    /\ IF get_pending_batches = {}
       THEN /\ batch' = EmptyList
            /\ wpc' = "set_completed"
       ELSE /\ batch' = SetMin(get_pending_batches)
            /\ wpc' = "process_batch"
    /\ UNCHANGED <<catalog, files, job_initialized, run_job_status, tasks,
                   chunk_start, env, history, ingest, beside, registry>>

\* await set_job_status("completed"); self._job_initialized = False
run_set_completed ==
    /\ wpc = "set_completed"
    /\ job_status' = "completed"
    /\ job_initialized' = FALSE
    /\ wpc' = "loop"
    /\ UNCHANGED <<batches, image_results, commit_log, files, batch,
                   run_job_status, tasks, chunk_start, env, history, ingest, beside,
                   registry>>

\* ---------------------------------- engine/batch_engine.py: process_batch
\* Up to `await update_batch_state(batch_id, BatchState.PROCESSING)`.
process_batch_begin ==
    /\ wpc = "process_batch"
    /\ IF batches[batch].state = "COMMITTED"
       THEN /\ wpc' = "loop"
            /\ UNCHANGED <<batches, chunk_start>>
       ELSE /\ batches' = update_batch_state(batches, batch, "PROCESSING")
            /\ chunk_start' = 0
            /\ wpc' = "chunk"
    /\ process_results_all' = 0
    /\ UNCHANGED <<job_status, image_results, commit_log, files,
                   job_initialized, batch, run_job_status, tasks, env, history,
                   ingest, aside, progress, registry>>

\* images[i : i + TERMINATE_CHUNK]
Chunk(b, i) ==
    {im \in get_images_for_batch(b) :
        /\ im - 1 - batches[b].start_idx >= i
        /\ im - 1 - batches[b].start_idx < i + TERMINATE_CHUNK}

\* Variant: the chunk loop never looks at the status.
terminate_requested_never(status) == FALSE

\* Variant: the chunk loop breaks on every status but running.
terminate_requested_any(status) == status # "running"

\* `if await get_job_status() == "terminating": break`
terminate_requested(status) == status = "terminating"

\* One turn of `for i in range(0, len(images), TERMINATE_CHUNK)`: the status
\* poll, then the coroutines of the chunk are handed to asyncio.gather.
process_batch_chunk ==
    /\ wpc = "chunk"
    /\ IF terminate_requested(job_status)
       THEN /\ wpc' = "stamp"
            /\ UNCHANGED tasks
       ELSE /\ tasks' = [im \in Images |->
                            IF im \in Chunk(batch, chunk_start)
                            THEN [IdleTask EXCEPT !.pc = "wait"] ELSE tasks[im]]
            /\ wpc' = "gather"
    /\ UNCHANGED <<catalog, files, job_initialized, batch, run_job_status,
                   chunk_start, env, history, ingest, beside, registry>>

\* Variant: the chunk loop does not wait for its coroutines.
chunk_returned_at_once(b, i) == TRUE

\* asyncio.gather returns when every coroutine of the chunk has returned.
chunk_returned(b, i) == \A im \in Chunk(b, i) : tasks[im].pc = "done"

\* The coroutines that have returned stay in `tasks` (as process_results_all
\* and commit_results_all keep their results) until process_batch returns.
process_batch_gathered ==
    /\ wpc = "gather"
    /\ chunk_returned(batch, chunk_start)
    /\ IF chunk_start + TERMINATE_CHUNK
            < Cardinality(get_images_for_batch(batch))
       THEN /\ chunk_start' = chunk_start + TERMINATE_CHUNK
            /\ wpc' = "chunk"
       ELSE /\ wpc' = "stamp"
            /\ UNCHANGED chunk_start
    /\ UNCHANGED <<catalog, files, job_initialized, batch, run_job_status,
                   tasks, env, history, ingest, beside, registry>>

\* await update_batch_state(batch_id, BatchState.COMMITTED)
process_batch_stamp ==
    /\ wpc = "stamp"
    /\ batches' = update_batch_state(batches, batch, "COMMITTED")
    /\ tasks' = [im \in Images |-> IdleTask]
    /\ wpc' = "job_progress"
    /\ UNCHANGED <<job_status, image_results, commit_log, files,
                   job_initialized, batch, run_job_status, chunk_start, env,
                   history, ingest, beside, registry>>

\* await self._update_job_progress(...), then process_batch returns to run.
process_batch_return ==
    /\ wpc = "job_progress"
    /\ jobs' = update_job_progress(batches, total_images, process_results_all)
    /\ process_results_all' = 0
    /\ wpc' = "loop"
    /\ UNCHANGED <<job_status, batches, image_results, commit_log, files, job_initialized, batch, run_job_status,
                   tasks, chunk_start, env, history, ingest, aside, total_images, registry>>

\* ------------------------- process_and_commit_single, one per image
\* Variant: the policy's count is not clamped.
get_worker_count_unclamped ==
    LET cpu_count == settings.cpu_count
        mode == settings.cpu_usage_mode
    IN IF mode = "adaptive" THEN Max(2, (cpu_count * 67) \div 100)
       ELSE IF mode = "low" THEN 2
       ELSE IF mode = "balanced" THEN 4
       ELSE IF mode = "high" THEN Max(4, cpu_count - 1)
       ELSE IF mode = "custom" THEN settings.max_parallel_workers
       ELSE 4

\* Settings.get_worker_count: the count of the policy, then
\* max(1, min(workers, cpu_count)).  int(cpu_count * 0.67) is the floor.
get_worker_count ==
    LET cpu_count == settings.cpu_count
        mode == settings.cpu_usage_mode
        workers ==
            IF mode = "adaptive" THEN Max(2, (cpu_count * 67) \div 100)
            ELSE IF mode = "low" THEN 2
            ELSE IF mode = "balanced" THEN 4
            ELSE IF mode = "high" THEN Max(4, cpu_count - 1)
            ELSE IF mode = "custom" THEN settings.max_parallel_workers
            ELSE 4
    IN Max(1, Min(workers, cpu_count))

\* process_batch: `settings.get_worker_count() if
\* settings.enable_parallel_processing else 1`, the capacity of the semaphore.
worker_count ==
    IF settings.enable_parallel_processing THEN get_worker_count ELSE 1

\* `async with semaphore`: at most worker_count images are being analysed.
\* With parallel processing disabled the images of the chunk are awaited
\* one after the other, each up to the end of its commit.
task_acquire(im) ==
    /\ tasks[im].pc = "wait"
    /\ Cardinality({j \in Images : tasks[j].pc = "analyze"}) < worker_count
    /\ \/ settings.enable_parallel_processing
       \/ \A j \in Images \ {im} :
             /\ tasks[j].pc \in {"idle", "done", "wait"}
             /\ tasks[j].pc = "wait" => j > im
    /\ tasks' = [tasks EXCEPT ![im].pc = "analyze"]
    /\ UNCHANGED <<catalog, files, wpc, job_initialized, batch, run_job_status,
                   chunk_start, env, history, ingest, beside, registry>>

\* uuid.uuid4().hex[:12]: a name no file of the scratch directory has.
uuid4 == CHOOSE n \in 1..(NumImages + 1) : n \notin temp_files

\* _process_image for an .arw file, up to the await of the detection:
\* raw_engine.convert_for_recognition writes the temporary JPEG into
\* settings.temp_dir and its path is kept in temp_path.
convert_for_recognition(im) ==
    /\ tasks[im].pc = "analyze"
    /\ im \in raw_images
    /\ temp_path[im] = NoTemp
    /\ temp_files' = temp_files \cup {uuid4}
    /\ temp_path' = [temp_path EXCEPT ![im] = uuid4]
    /\ UNCHANGED <<pipeline, ingest, registry, matcher, service, raw_images,
                   settings,
                   progress, process_results_all>>

\* Variant: the temporary JPEG is left where it is.
finally_cleanup_never(im) == temp_files

\* The finally of _process_image: `if temp_path and temp_path.exists():
\* self.raw_engine.cleanup_temp_file(temp_path)`.
finally_cleanup(im) == temp_files \ {temp_path[im]}

\* `if self.group_mode and self.selected_person_ids`: the matches are kept
\* when every required person is among them, and cleared otherwise.
group_filter(ids) ==
    IF job_config.group_mode /\ job_config.selected_person_ids # {}
    THEN IF job_config.selected_person_ids \subseteq ids THEN ids ELSE {}
    ELSE ids

\* matched_ids of _process_image, deduplicated.
matched_ids(im) == group_filter(selected(FaceMatch(im)))

\* _process_image: detect, match, save_image_result; the semaphore is
\* released and the image goes on to its commit when matched_count > 0.
process_image(im) ==
    /\ tasks[im].pc = "analyze"
    /\ (im \in raw_images) => temp_path[im] # NoTemp
    /\ image_results' = [image_results EXCEPT ![im] = Result(im, matched_ids(im))]
    /\ tasks' = [tasks EXCEPT ![im].pc =
                    IF Cardinality(matched_ids(im)) > 0 THEN "commit" ELSE "done"]
    /\ process_results_all' = process_results_all + 1
    /\ temp_files' = finally_cleanup(im)
    /\ temp_path' = [temp_path EXCEPT ![im] = NoTemp]
    /\ UNCHANGED <<job_status, batches, commit_log, files, wpc,
                   job_initialized, batch, run_job_status, chunk_start, env,
                   history, ingest, matcher, service, raw_images, settings, registry,
                   progress>>

\* Variant: the failure is not handled and no row is saved for the image.
process_image_unreadable_unsaved(im) ==
    /\ tasks[im].pc = "analyze"
    /\ faults < MaxFaults
    /\ faults' = faults + 1
    /\ tasks' = [tasks EXCEPT ![im].pc = "done"]
    /\ process_results_all' = process_results_all + 1
    /\ temp_files' = finally_cleanup(im)
    /\ temp_path' = [temp_path EXCEPT ![im] = NoTemp]
    /\ UNCHANGED <<catalog, files, wpc, job_initialized, batch, run_job_status,
                   chunk_start, kills, ops, history, ingest, matcher, service,
                   raw_images, settings, registry,
                   progress>>

\* _process_image when convert_for_recognition or detect_and_embed raises:
\* a row with zero counts is saved and the image is returned as skipped,
\* with matched_count 0, so that it is not committed.
process_image_unreadable(im) ==
    /\ tasks[im].pc = "analyze"
    /\ faults < MaxFaults
    /\ faults' = faults + 1
    /\ image_results' = [image_results EXCEPT ![im] = ZeroFaceResult]
    /\ tasks' = [tasks EXCEPT ![im].pc = "done"]
    /\ process_results_all' = process_results_all + 1
    /\ temp_files' = finally_cleanup(im)
    /\ temp_path' = [temp_path EXCEPT ![im] = NoTemp]
    /\ UNCHANGED <<job_status, batches, commit_log, files, wpc,
                   job_initialized, batch, run_job_status, chunk_start, kills,
                   ops, history, ingest, matcher, service, raw_images, settings, registry,
                   progress>>

\* img_result["matched_person_ids"]
matched_person_ids(im) == image_results[im].matched_person_ids

\* _commit_image up to the first await of route_image: compress once to
\* staging, then the fan-out starts with the first matched person.
commit_image(im) ==
    /\ tasks[im].pc = "commit"
    /\ staging' = staging \cup {OutputFilename(im)}
    /\ tasks' = [tasks EXCEPT
            ![im].pc = IF job_config.group_mode
                          /\ job_config.group_folder_name # ""
                       THEN "route_group" ELSE "route_log",
            ![im].person = SetMin(matched_person_ids(im)),
            ![im].again = \A p \in matched_person_ids(im) :
                              outfs[output_path(p, im)] = "complete"]
    /\ UNCHANGED <<catalog, outfs, wpc, job_initialized, batch, run_job_status,
                   chunk_start, env, history, ingest, beside, registry>>

\* Variant: the staged file is left in the staging directory.
cleanup_staged_file_never(im) == staging

\* cleanup_staged_file: staged_path.unlink(), a missing file is ignored.
cleanup_staged_file(im) == staging \ {OutputFilename(im)}

\* Variant: the fan-out ends at the first target that fails.
Advance_until_error(im, outcome) ==
    LET rest == IF outcome = "error" THEN {}
                ELSE {q \in matched_person_ids(im) : q > tasks[im].person}
    IN IF rest = {}
       THEN /\ tasks' = [tasks EXCEPT
                    ![im].pc = "done",
                    ![im].person = 0,
                    ![im].outcomes = @ \cup {<<tasks[im].person, outcome>>}]
            /\ staging' = cleanup_staged_file(im)
       ELSE /\ tasks' = [tasks EXCEPT
                    ![im].pc = "route_log",
                    ![im].person = SetMin(rest),
                    ![im].outcomes = @ \cup {<<tasks[im].person, outcome>>}]
            /\ UNCHANGED staging

\* The end of one target of the fan-out: route_image goes on to the next
\* matched person, or returns and _commit_image's finally deletes the staged
\* file (cleanup_staged_file, which tolerates its absence).
Advance(im, outcome) ==
    LET rest == {q \in matched_person_ids(im) : q > tasks[im].person}
    IN IF rest = {}
       THEN /\ tasks' = [tasks EXCEPT
                    ![im].pc = "done",
                    ![im].person = 0,
                    ![im].outcomes = @ \cup {<<tasks[im].person, outcome>>}]
            /\ staging' = cleanup_staged_file(im)
       ELSE /\ tasks' = [tasks EXCEPT
                    ![im].pc = "route_log",
                    ![im].person = SetMin(rest),
                    ![im].outcomes = @ \cup {<<tasks[im].person, outcome>>}]
            /\ UNCHANGED staging

\* The statuses among the results that route_image has collected for im.
Statuses(im) == {o[2] : o \in tasks[im].outcomes}

\* ------------------------------------------- commit log (db/jobs.py)
\* The log is an audit trail of the fan-out: a destination counts as
\* committed once its write has been recorded, a pending entry does not.
check_output_exists_in_log(path) == commit_log[path] = 2

add_commit_entry(log, path) == [log EXCEPT ![path] = IF @ = 0 THEN 1 ELSE @]

update_commit_status(log, path) == [log EXCEPT ![path] = 2]

log_path(p, im) == <<p, OutputFilename(im)>>

\* --------------------------- engine/routing.py: _route_to_person
\* await check_output_exists_in_log(output_path_str)
route_check_log(im) ==
    /\ tasks[im].pc = "route_log"
    /\ IF check_output_exists_in_log(log_path(tasks[im].person, im))
       THEN Advance(im, "skipped")
       ELSE /\ tasks' = [tasks EXCEPT ![im].pc = "route_exists"]
            /\ UNCHANGED staging
    /\ UNCHANGED <<catalog, outfs, wpc, job_initialized, batch, run_job_status,
                   chunk_start, env, history, ingest, beside, registry>>

\* Variant: the existence test is dropped, every destination is written.
destination_is_free_always(path) == TRUE

\* The idempotency test of the fan-out: is the destination to be written?
destination_is_free(path) == outfs[path] = "absent"

\* `if output_path.exists()`: record the file as verified and return
\* "exists"; otherwise add the pending log entry and go on to the copy.
route_check_exists(im) ==
    LET p == tasks[im].person
    IN /\ tasks[im].pc = "route_exists"
       /\ IF ~destination_is_free(output_path(p, im))
          THEN /\ commit_log' = update_commit_status(
                                  add_commit_entry(commit_log, log_path(p, im)),
                                  log_path(p, im))
               /\ Advance(im, "exists")
          ELSE /\ commit_log' = add_commit_entry(commit_log, log_path(p, im))
               /\ tasks' = [tasks EXCEPT ![im].pc = "route_copy"]
               /\ UNCHANGED staging
       /\ UNCHANGED <<job_status, batches, image_results, outfs, wpc,
                      job_initialized, batch, run_job_status, chunk_start, env,
                      history, ingest, beside, registry>>

\* The paths among `written` at which a file exists already.
Overwritten(written) == {d \in written : outfs[d] # "absent"}

\* shutil.copy2(staged_path, temp_output); temp_output.rename(output_path).
\* Both calls are synchronous: no other coroutine runs in between.  copy2
\* raises when the staged file is gone (a coroutine of an image with the
\* same output name has deleted it), and the target is reported as an error.
route_copy(im) ==
    LET p == tasks[im].person
    IN /\ tasks[im].pc = "route_copy"
       /\ IF OutputFilename(im) \notin staging
          THEN /\ Advance(im, "error")
               /\ UNCHANGED <<outfs, clobbered>>
          ELSE /\ outfs' = [outfs EXCEPT ![temp_output(p, im)] = "absent",
                                         ![output_path(p, im)] = "complete"]
               /\ clobbered' = clobbered \cup
                    Overwritten({temp_output(p, im), output_path(p, im)})
               /\ tasks' = [tasks EXCEPT ![im].pc = "route_mark"]
               /\ UNCHANGED staging
       /\ UNCHANGED <<catalog, wpc, job_initialized, batch, run_job_status,
                      chunk_start, env, at_start, stop_pending, ingest, beside,
                      registry>>

\* update_commit_status(commit_id, "written"), the verification and
\* update_commit_status(commit_id, "verified"); the target is a "success".
route_mark(im) ==
    LET p == tasks[im].person
    IN /\ tasks[im].pc = "route_mark"
       /\ commit_log' = update_commit_status(commit_log, log_path(p, im))
       /\ Advance(im, "success")
       /\ UNCHANGED <<job_status, batches, image_results, outfs, wpc,
                      job_initialized, batch, run_job_status, chunk_start, env,
                      history, ingest, beside, registry>>

\* ----------------------- engine/routing.py: route_image_to_group
\* route_image_to_group: the single destination
\* output_root / group_folder_name / output_filename, written unless it
\* exists, from the staged file; then the finally of _commit_image.
route_image_to_group(im) ==
    LET destination == <<0, OutputFilename(im), "jpg">>
        write == OutputFilename(im) \in staging /\ outfs[destination] = "absent"
    IN /\ tasks[im].pc = "route_group"
       /\ outfs' = IF write THEN [outfs EXCEPT ![destination] = "complete"]
                   ELSE outfs
       /\ commit_log' = IF OutputFilename(im) \in staging
                         THEN update_commit_status(commit_log, log_path(0, im))
                         ELSE commit_log
       /\ tasks' = [tasks EXCEPT
               ![im].pc = "done",
               ![im].person = 0,
               ![im].outcomes = @ \cup
                   {<<0, IF write THEN "success"
                         ELSE IF OutputFilename(im) \in staging THEN "exists"
                         ELSE "error">>}]
       /\ staging' = cleanup_staged_file(im)
       /\ UNCHANGED <<job_status, batches, image_results, wpc, job_initialized,
                      batch, run_job_status, chunk_start, env, history, ingest,
                      beside, registry>>

\* ------------------------------------------------- the worker process
\* What a kill takes away: the supervisor's position and locals and every
\* coroutine.  The catalog and the file trees stay as they are.
Killed ==
    /\ wpc' = "dead"
    /\ job_initialized' = FALSE
    /\ batch' = NoBatch
    /\ run_job_status' = Unbound
    /\ tasks' = [im \in Images |-> IdleTask]
    /\ chunk_start' = 0
    /\ kills' = kills + 1
    /\ total_images' = 0
    /\ process_results_all' = 0

\* The worker process is killed between two steps.
kill_worker ==
    /\ wpc # "dead"
    /\ kills < MaxKills
    /\ Killed
    /\ UNCHANGED <<catalog, files, ops, faults, history, ingest, aside, jobs, registry>>

\* The worker process is killed inside shutil.copy2 or before the rename:
\* the temporary file is left behind, partly or fully written.
kill_during_copy(im) ==
    LET p == tasks[im].person
    IN /\ tasks[im].pc = "route_copy"
       /\ OutputFilename(im) \in staging
       /\ kills < MaxKills
       /\ \E content \in {"partial", "complete"} :
            outfs' = [outfs EXCEPT ![temp_output(p, im)] = content]
       /\ clobbered' = clobbered \cup Overwritten({temp_output(p, im)})
       /\ Killed
       /\ UNCHANGED <<catalog, staging, ops, faults, at_start, stop_pending,
                      ingest, aside, jobs, registry>>

\* scripts/run_worker.py: the worker process is started again.
restart_worker ==
    /\ wpc = "dead"
    /\ wpc' = "resume"
    /\ at_start' = Snapshot(batches, outfs)
    /\ UNCHANGED <<catalog, files, job_initialized, batch, run_job_status,
                   tasks, chunk_start, env, clobbered, stop_pending, ingest, beside,
                   registry>>

\* ------------------------------------------------- api/operator.py
\* start_job: the registry holds persons and both roots are configured.
start_job ==
    /\ ops < MaxOps
    /\ job_status' = "running"
    /\ ops' = ops + 1
    /\ stop_pending' = 0
    /\ UNCHANGED <<batches, image_results, commit_log, files, wpc,
                   job_initialized, batch, run_job_status, tasks, chunk_start,
                   kills, faults, clobbered, at_start, ingest, beside, registry>>

\* The operator starts the configured job (once).
first_start ==
    /\ job_status = "configured"
    /\ start_job

\* The supervisor is inside the chunk loop of process_batch.
InChunkLoop == wpc \in {"chunk", "gather"}

\* stop_job: "Stop after the current batch completes (including writes)."
stop_job ==
    /\ ops < MaxOps
    /\ job_status' = "stopped"
    /\ ops' = ops + 1
    /\ stop_pending' = IF InChunkLoop THEN batch ELSE stop_pending
    /\ UNCHANGED <<batches, image_results, commit_log, files, wpc,
                   job_initialized, batch, run_job_status, tasks, chunk_start,
                   kills, faults, clobbered, at_start, ingest, beside, registry>>

\* terminate_job: no new photos are analysed, then the job stops.
terminate_job ==
    /\ ops < MaxOps
    /\ job_status' = "terminating"
    /\ ops' = ops + 1
    /\ stop_pending' = 0
    /\ UNCHANGED <<batches, image_results, commit_log, files, wpc,
                   job_initialized, batch, run_job_status, tasks, chunk_start,
                   kills, faults, clobbered, at_start, ingest, beside, registry>>

\* ---------------------------------------------------------------- errors
\* The awaits of the try block of WorkerRunner.run at which the catalog
\* (SQLite, shared with the server process) or the state files can raise.
SupervisorAwaits ==
    {"loop", "set_job_status", "clear", "discover", "get_pending",
     "set_completed", "process_batch", "chunk", "stamp", "job_progress"}

\* `except Exception` of WorkerRunner.run: the batch the local `batch` names
\* is reset to PENDING; `batch` is a dict only after `batch = batch[0]`.
exception_handler(rows, local) ==
    IF local = NoBatch \/ local = EmptyList THEN rows
    ELSE update_batch_state(rows, local, "PENDING")

\* An await of the supervisor raises and the handler runs.
run_raises ==
    /\ wpc \in SupervisorAwaits
    /\ faults < MaxFaults
    /\ faults' = faults + 1
    /\ batches' = exception_handler(batches, batch)
    /\ tasks' = [im \in Images |-> IdleTask]
    /\ process_results_all' = 0
    /\ wpc' = "loop"
    /\ UNCHANGED <<job_status, image_results, commit_log, files,
                   job_initialized, batch, run_job_status, chunk_start, kills,
                   ops, history, ingest, aside, progress, registry>>

\* The catalog stays unavailable while the handler runs: the await raises and
\* so does the handler's own update_batch_state, which `except Exception as
\* reset_error` only prints; the supervisor sleeps and goes round.
reset_error ==
    /\ wpc \in SupervisorAwaits
    /\ batch # NoBatch /\ batch # EmptyList
    /\ faults < MaxFaults
    /\ faults' = faults + 1
    /\ tasks' = [im \in Images |-> IdleTask]
    /\ process_results_all' = 0
    /\ wpc' = "loop"
    /\ UNCHANGED <<catalog, files, job_initialized, batch, run_job_status,
                   chunk_start, kills, ops, history, ingest, aside, progress, registry>>

\* An exception in process_and_commit_single outside the try block of
\* _route_to_person (analysis, compression, a catalog call of the fan-out):
\* `except Exception` returns an error result for the image, after the
\* finally of _commit_image has deleted the staged file.
task_fails(im) ==
    /\ wpc = "gather"
    /\ tasks[im].pc \in {"analyze", "commit", "route_log", "route_exists"}
    /\ faults < MaxFaults
    /\ faults' = faults + 1
    /\ tasks' = [tasks EXCEPT ![im].pc = "done",
                              ![im].person = 0,
                              ![im].outcomes = @ \cup {<<0, "error">>}]
    /\ staging' = IF tasks[im].pc = "analyze" THEN staging
                  ELSE cleanup_staged_file(im)
    /\ process_results_all' = process_results_all + 1
    /\ temp_files' = finally_cleanup(im)
    /\ temp_path' = [temp_path EXCEPT ![im] = NoTemp]
    /\ UNCHANGED <<catalog, outfs, wpc, job_initialized, batch, run_job_status,
                   chunk_start, kills, ops, history, ingest, matcher, service,
                   raw_images, settings, registry,
                   progress>>

\* shutil.copy2 raises (the output drive is full or gone): the target is
\* reported with status "error"; what was written of the temporary file stays.
route_copy_fails(im) ==
    LET p == tasks[im].person
    IN /\ tasks[im].pc = "route_copy"
       /\ faults < MaxFaults
       /\ faults' = faults + 1
       /\ \E content \in {outfs[temp_output(p, im)], "partial"} :
            outfs' = [outfs EXCEPT ![temp_output(p, im)] = content]
       /\ clobbered' = clobbered \cup
            (Overwritten({temp_output(p, im)}) \cap {d \in OutputPaths : outfs'[d] # outfs[d]})
       /\ Advance(im, "error")
       /\ UNCHANGED <<catalog, wpc, job_initialized, batch, run_job_status,
                      chunk_start, kills, ops, at_start, stop_pending, ingest, beside,
                      registry>>

\* `person = await get_person_by_id(person_id)` finds no row (the person
\* was deleted after the image was analysed): the target is reported with
\* status "error" and nothing is written for it.
route_person_missing(im) ==
    /\ tasks[im].pc = "route_log"
    /\ faults < MaxFaults
    /\ faults' = faults + 1
    /\ Advance(im, "error")
    /\ UNCHANGED <<catalog, outfs, wpc, job_initialized, batch, run_job_status,
                   chunk_start, kills, ops, history, ingest, beside, registry>>

\* ------------------- engine/batch_engine.py: _commit_batch, from resume
CommitPcs == {"commit", "route_log", "route_exists", "route_copy", "route_mark"}

\* Variant: the replay finds nothing to commit.
images_with_matches_none(b) == {}

\* get_image_results_for_batch, filtered by matched_count > 0
images_with_matches(b) ==
    {im \in get_images_for_batch(b) :
        /\ image_results[im].saved
        /\ Cardinality(image_results[im].matched_person_ids) > 0}

\* The end of _commit_batch(b): self.total_images is read from the table
\* images when the engine has none, the batch is stamped and the progress
\* is updated with len(image_results).
commit_batch_progress(b) ==
    update_job_progress(
        update_batch_state(batches, b, "COMMITTED"),
        IF total_images <= 0 THEN NumImages ELSE total_images,
        Cardinality({im \in get_images_for_batch(b) : image_results[im].saved}))

\* The next state of the supervisor in _resume_interrupted's loop
\* `for b in committing` once batch b is done.
AfterResumeCommit(b) ==
    IF get_batches_by_state("COMMITTING") \ {b} # {}
    THEN "resume_commit" ELSE "loop"

\* _commit_batch(b) for the next batch found COMMITTING: the commits of its
\* matched images are handed to asyncio.gather; with none to commit the
\* batch is marked COMMITTED at once.
resume_commit_batch ==
    LET b == SetMin(get_batches_by_state("COMMITTING"))
    IN /\ wpc = "resume_commit"
       /\ IF images_with_matches(b) = {}
          THEN /\ batches' = update_batch_state(batches, b, "COMMITTED")
               /\ wpc' = AfterResumeCommit(b)
               /\ total_images' = commit_batch_progress(b).total_images
               /\ jobs' = commit_batch_progress(b)
               /\ UNCHANGED tasks
          ELSE /\ tasks' = [im \in Images |->
                               IF im \in images_with_matches(b)
                               THEN [IdleTask EXCEPT !.pc = "commit_wait"]
                               ELSE IdleTask]
               /\ wpc' = "resume_gather"
               /\ UNCHANGED <<batches, progress>>
       /\ UNCHANGED <<job_status, image_results, commit_log, files,
                      job_initialized, batch, run_job_status, chunk_start, env,
                      history, ingest, aside, process_results_all, registry>>

\* commit_with_semaphore: `async with commit_semaphore`
commit_acquire(im) ==
    /\ tasks[im].pc = "commit_wait"
    /\ Cardinality({j \in Images : tasks[j].pc \in CommitPcs}) < get_worker_count
    /\ tasks' = [tasks EXCEPT ![im].pc = "commit"]
    /\ UNCHANGED <<catalog, files, wpc, job_initialized, batch, run_job_status,
                   chunk_start, env, history, ingest, beside, registry>>

\* The gather of _commit_batch has returned: update_batch_state(COMMITTED).
resume_commit_gathered ==
    LET b == SetMin(get_batches_by_state("COMMITTING"))
    IN /\ wpc = "resume_gather"
       /\ \A im \in Images : tasks[im].pc \in {"idle", "done"}
       /\ batches' = update_batch_state(batches, b, "COMMITTED")
       /\ tasks' = [im \in Images |-> IdleTask]
       /\ wpc' = AfterResumeCommit(b)
       /\ total_images' = commit_batch_progress(b).total_images
       /\ jobs' = commit_batch_progress(b)
       /\ UNCHANGED <<job_status, image_results, commit_log, files,
                      job_initialized, batch, run_job_status, chunk_start, env,
                      history, ingest, aside, process_results_all, registry>>

Task ==
    \E im \in Images :
        \/ task_acquire(im)
        \/ process_image(im)
        \/ commit_image(im)
        \/ route_check_log(im)
        \/ route_check_exists(im)
        \/ route_copy(im)
        \/ route_mark(im)

Worker ==
    \/ resume_interrupted
    \/ run_poll
    \/ clear_old_job_data
    \/ discover_images
    \/ run_get_pending
    \/ run_set_completed
    \/ process_batch_begin
    \/ process_batch_chunk
    \/ process_batch_gathered
    \/ process_batch_stamp
    \/ process_batch_return
    \/ Task

\* The worker with kills and restarts, the job started once.
NextCrash ==
    \/ Worker
    \/ first_start
    \/ kill_worker
    \/ (\E im \in Images : kill_during_copy(im))
    \/ restart_worker

SpecCrash == Init /\ [][NextCrash]_vars

\* ------------------------------------------------ db/jobs.py: job_config
\* The configurations of a job whose roots are set.
JobConfigs ==
    [source_root : {"source"}, output_root : {"output"},
     selected_person_ids : SUBSET Persons, group_mode : BOOLEAN,
     group_folder_name : {"", "group"}]

\* save_job_config: UPDATE job_config SET source_root = ?, ...
save_job_config(config) ==
    /\ job_config' = config
    /\ UNCHANGED <<pipeline, ingest, registry, matcher, heartbeat_pc, naming,
                   start_request,
                   scratch,
                   progress, process_results_all>>

\* The job is configured, with or without a person filter and group mode,
\* before the worker looks at it; then it is started and runs undisturbed.
NextGroup ==
    \/ \E config \in JobConfigs :
          /\ wpc = "resume"
          /\ job_status = "configured"
          /\ save_job_config(config)
    \/ first_start
    \/ Worker
    \/ \E im \in Images : route_image_to_group(im)

SpecGroup == Init /\ [][NextGroup]_vars

\* ------------------------------------------- the roots of a job as paths
\* Path(root) for the roots an operator may give: the source directory, an
\* output directory beside it and an output directory inside it.
resolve(root) ==
    IF root = "source" THEN <<"photos">>
    ELSE IF root = "output" THEN <<"sorted">>
    ELSE IF root = "source/sorted" THEN <<"photos", "sorted">>
    ELSE <<>>

\* Path.is_relative_to: root is a prefix of path.
is_relative_to(path, root) ==
    /\ Len(root) <= Len(path)
    /\ SubSeq(path, 1, Len(root)) = root

\* settings.hot_storage_root and its staging and temp directories.
hot_storage_root == <<"hot_storage">>

\* The files the worker has created: person_folder / output_filename and
\* its temporary name under output_root, the staged artifacts and the
\* temporary JPEGs under hot storage.
WrittenFiles ==
    {resolve(job_config.output_root) \o <<d[1], d[2], d[3]>> :
        d \in {e \in OutputPaths : outfs[e] # "absent"}}
    \cup {hot_storage_root \o <<"staging", f>> : f \in staging}
    \cup {hot_storage_root \o <<"temp", f>> : f \in temp_files}

\* POST /job-config: the source directory must exist and be a directory;
\* the output directory is created if needed and the roots are saved.
set_job_configuration(output_root) ==
    save_job_config([job_config EXCEPT !.output_root = output_root])

\* The operator gives the roots before the job is started; then it runs.
NextRoots ==
    \/ \E output_root \in {"output", "source/sorted"} :
          /\ wpc = "resume"
          /\ job_status = "configured"
          /\ set_job_configuration(output_root)
    \/ first_start
    \/ Worker

SpecRoots == Init /\ [][NextRoots]_vars

\* One started job, with failures of single targets of the fan-out.
NextFanout ==
    \/ first_start
    \/ Worker
    \/ \E im \in Images : route_copy_fails(im)
    \/ \E im \in Images : route_person_missing(im)

SpecFanout == Init /\ [][NextFanout]_vars

\* One started job in which a commit may fail as a whole (compression, a
\* catalog call of the fan-out) or in single targets.
NextCleanup ==
    \/ NextFanout
    \/ \E im \in Images : task_fails(im)

SpecCleanup == Init /\ [][NextCleanup]_vars

\* One started job in which images may fail to decode; the event loop
\* keeps running the supervisor and the coroutines of the chunk.
NextUnreadable ==
    \/ first_start
    \/ Worker
    \/ \E im \in Images : process_image_unreadable(im)

SpecUnreadableFair == Init /\ [][NextUnreadable]_vars /\ WF_vars(Worker)

\* A source tree with .arw files: one started job in which the conversion,
\* the detection, a match or the saving of the result of an image may fail.
InitRaw ==
    /\ InitWorker
    /\ naming = NoNaming
    /\ raw_images \in SUBSET Images \ {{}}
    /\ settings = DefaultSettings

NextRaw ==
    \/ first_start
    \/ Worker
    \/ \E im \in Images : convert_for_recognition(im)
    \/ \E im \in Images : process_image_unreadable(im)
    \/ \E im \in Images : task_fails(im)

SpecRaw == InitRaw /\ [][NextRaw]_vars

\* The worker and the operator's commands: no kill, no error.
NextOps ==
    \/ Worker
    \/ run_set_stopped
    \/ start_job
    \/ stop_job
    \/ terminate_job

SpecOps == Init /\ [][NextOps]_vars

\* The same, with the event loop of the worker process running: whenever
\* the supervisor or a coroutine can take a step, one of them does.
SpecOpsFair == SpecOps /\ WF_vars(Worker \/ run_set_stopped)

\* One job started once and left alone: no further command, no kill, no
\* error.  The event loop of the worker keeps running.
NextRun ==
    \/ Worker
    \/ first_start

SpecRunFair == Init /\ [][NextRun]_vars /\ WF_vars(Worker)

\* The CPU-usage policies and machines a worker is run with.
MaxCpus == 6
MaxParallelWorkers == 3
Policies ==
    [cpu_usage_mode : {"adaptive", "low", "balanced", "high", "custom", "turbo"},
     max_parallel_workers : (-1)..MaxParallelWorkers,
     enable_parallel_processing : BOOLEAN,
     cpu_count : 1..MaxCpus]

InitPolicy ==
    /\ InitWorker
    /\ naming = NoNaming
    /\ raw_images = {}
    /\ settings \in Policies

\* One started job under any policy.
SpecPolicy == InitPolicy /\ [][NextRun]_vars

\* Everything: the operator's commands, kills and restarts, errors.
Next ==
    \/ NextOps
    \/ kill_worker
    \/ (\E im \in Images : kill_during_copy(im))
    \/ restart_worker
    \/ run_raises
    \/ reset_error
    \/ (\E im \in Images : task_fails(im))
    \/ (\E im \in Images : route_copy_fails(im))

Spec == Init /\ [][Next]_vars

\* ------------------------------------------------ a worker found COMMITTING
\* The catalog and the trees a worker of the phased engine leaves when it is
\* killed in the commit phase of batch k: the batches before k COMMITTED with
\* their output written, the results of batch k saved, any part of its
\* fan-out written, pending log entries and temporary files for some of the
\* rest, and possibly a staged artifact.
TargetsOf(ims) == UNION {{<<p, OutputFilename(im)>> : p \in FaceMatch(im)} : im \in ims}

ImagesOfRows(rows, bs) ==
    {im \in Images : \E b \in bs : /\ im - 1 >= rows[b].start_idx
                                  /\ im - 1 <= rows[b].end_idx}

InitResume ==
    \E k \in DOMAIN create_batches(NumImages, BatchSize) :
    \E status \in {"running", "stopped"} :
    LET rows == create_batches(NumImages, BatchSize)
        before == {b \in DOMAIN rows : b < k}
        done == TargetsOf(ImagesOfRows(rows, before))
        mine == TargetsOf(ImagesOfRows(rows, {k})) \ done
    IN \E written \in SUBSET mine :
       \E pending \in SUBSET (mine \ written) :
       \E temps \in SUBSET pending :
       \E staged \in SUBSET {OutputFilename(im) : im \in ImagesOfRows(rows, {k})} :
        /\ InitService
        /\ job_status = status
        /\ batches = [b \in DOMAIN rows |->
                        [rows[b] EXCEPT !.state =
                            IF b < k THEN "COMMITTED"
                            ELSE IF b = k THEN "COMMITTING" ELSE "PENDING"]]
        /\ image_results = [im \in Images |->
                               IF im \in ImagesOfRows(rows, before \cup {k})
                               THEN Result(im, FaceMatch(im)) ELSE NoResult]
        /\ commit_log = [d \in LogPaths |->
                            IF d \in done \cup written THEN 2
                            ELSE IF d \in pending THEN 1 ELSE 0]
        /\ outfs = [d \in OutputPaths |->
                       IF d[3] = "jpg" /\ <<d[1], d[2]>> \in done \cup written
                       THEN "complete"
                       ELSE IF d[3] = "tmp" /\ <<d[1], d[2]>> \in temps
                       THEN "partial" ELSE "absent"]
        /\ staging = staged
        /\ wpc = "resume"
        /\ job_initialized = FALSE
        /\ batch = NoBatch
        /\ run_job_status = Unbound
        /\ tasks = [im \in Images |-> IdleTask]
        /\ chunk_start = 0
        /\ kills = 0
        /\ ops = 0
        /\ faults = 0
        /\ clobbered = {}
        /\ at_start = Snapshot(batches, outfs)
        /\ stop_pending = 0
        /\ InitIngest
        /\ InitRegistry
        /\ InitMatcher
        /\ InitScratch
        /\ naming = NoNaming
        /\ raw_images = {}
        /\ settings = DefaultSettings

NextResume ==
    \/ Worker
    \/ resume_commit_batch
    \/ resume_commit_gathered
    \/ (\E im \in Images : commit_acquire(im))
    \/ kill_worker
    \/ (\E im \in Images : kill_during_copy(im))
    \/ restart_worker

SpecResume == InitResume /\ [][NextResume]_vars

\* ------------- engine/routing.py: CommitReconciliation.reconcile_batch
\* get_pending_commits: the entries of the commit log that are still pending.
get_pending_commits == {d \in LogPaths : commit_log[d] = 1}

\* One turn of `for commit in pending`, "called during resume when a batch
\* was in COMMITTING state": an output that exists is marked verified; a
\* missing one is copied from staging with shutil.copy2(staged_path,
\* output_path), straight to its final name, and marked verified; with no
\* staged file the commit is counted as failed.
reconcile_batch(d) ==
    LET output == <<d[1], d[2], "jpg">>
    IN /\ wpc = "resume_commit"
       /\ d \in get_pending_commits
       /\ IF outfs[output] # "absent"
          THEN /\ commit_log' = update_commit_status(commit_log, d)
               /\ UNCHANGED outfs
          ELSE IF d[2] \in staging
          THEN /\ outfs' = [outfs EXCEPT ![output] = "complete"]
               /\ commit_log' = update_commit_status(commit_log, d)
          ELSE UNCHANGED <<outfs, commit_log>>
       /\ UNCHANGED <<job_status, batches, image_results, staging, wpc,
                      job_initialized, batch, run_job_status, tasks, chunk_start,
                      env, history, ingest, beside, registry>>

\* The worker process is killed inside the shutil.copy2 of reconcile_batch:
\* what was written so far stays under the name the copy was given.
kill_during_reconcile(d) ==
    LET output == <<d[1], d[2], "jpg">>
    IN /\ wpc = "resume_commit"
       /\ d \in get_pending_commits
       /\ outfs[output] = "absent"
       /\ d[2] \in staging
       /\ kills < MaxKills
       /\ \E content \in {"partial", "complete"} :
            outfs' = [outfs EXCEPT ![output] = content]
       /\ Killed
       /\ UNCHANGED <<catalog, staging, ops, faults, history, ingest, aside, jobs,
                      registry>>

\* The resume of a COMMITTING batch, with the reconciliation of its pending
\* commits.
NextReconcile ==
    \/ NextResume
    \/ \E d \in LogPaths : reconcile_batch(d)
    \/ \E d \in LogPaths : kill_during_reconcile(d)

SpecReconcile == InitResume /\ [][NextReconcile]_vars

\* ------------------------------------------------ create_batches alone
\* IngestEngine.run has catalogued a source tree of any size and is about to
\* cut the batches, for any configured batch size.
InitCreateBatches ==
    /\ job_status = "running"
    /\ batches = <<>>
    /\ image_results = [i \in Images |-> NoResult]
    /\ commit_log = [d \in LogPaths |-> 0]
    /\ outfs = FreshTree
    /\ staging = {}
    /\ wpc = "discover"
    /\ job_initialized = FALSE
    /\ batch = NoBatch
    /\ run_job_status = "running"
    /\ tasks = [i \in Images |-> IdleTask]
    /\ chunk_start = 0
    /\ kills = 0
    /\ ops = 1
    /\ faults = 0
    /\ clobbered = {}
    /\ at_start = Snapshot(<<>>, FreshTree)
    /\ stop_pending = 0
    /\ n_images \in 0..MaxImageCount
    /\ atomic_batch_size \in 1..MaxBatchSize
    /\ InitRegistry
    /\ InitMatcher
    /\ InitScratch
    /\ InitService
    /\ naming = NoNaming
    /\ raw_images = {}
    /\ settings = DefaultSettings

\* batch_count = await create_batches(job_id, self.batch_size)
ingest_create_batches ==
    /\ wpc = "discover"
    /\ batches' = create_batches(n_images, atomic_batch_size)
    /\ wpc' = "get_pending"
    /\ UNCHANGED <<job_status, image_results, commit_log, files,
                   job_initialized, batch, run_job_status, tasks, chunk_start,
                   env, history, ingest, beside, registry>>

NextCreateBatches == ingest_create_batches

SpecCreateBatches == InitCreateBatches /\ [][NextCreateBatches]_vars

\* ------------------------------- storage/paths.py: the output name alone
\* The hex digests of the source files: HashLen digits, of which the last
\* four vary, two of them beyond the prefix that goes into the name.
Hashes ==
    {h \in [1..HashLen -> {0, 1}] : \A i \in 1..(HashLen - 4) : h[i] = 0}

\* Two source files, each with the stem of its name and the digest of its
\* bytes, come to _commit_image.
InitNaming ==
    /\ InitWorker
    /\ raw_images = {}
    /\ settings = DefaultSettings
    /\ \E stems \in Stems \X Stems : \E hashes \in Hashes \X Hashes :
          naming = [stems |-> stems, hashes |-> hashes, names |-> <<>>]

\* output_filename = generate_deterministic_filename(original_stem, file_hash)
commit_image_name ==
    /\ naming.names = <<>>
    /\ naming' = [naming EXCEPT !.names =
          [i \in DOMAIN naming.stems |->
              generate_deterministic_filename(naming.stems[i],
                                              naming.hashes[i])]]
    /\ UNCHANGED <<pipeline, ingest, registry, matcher, job_config,
                   heartbeat_pc, start_request,
                   scratch,
                   progress, process_results_all>>

NextNaming == commit_image_name

SpecNaming == InitNaming /\ [][NextNaming]_vars

\* ------------------------------------------- db/db.py, db/registry.py
\* The registry tables as the shared connection sees them.
Tables ==
    [persons |-> persons, person_embeddings |-> person_embeddings,
     person_centroids |-> person_centroids]

EmbeddingsOf(rows, p) == {e \in rows : e.person_id = p}

\* db.execute of a statement that leaves the tables as t: on the connection
\* of get_db (isolation_level=None) it is committed at once unless a BEGIN
\* is open, and then it belongs to that transaction, whoever issued it.
Execute(t) ==
    /\ persons' = t.persons
    /\ person_embeddings' = t.person_embeddings
    /\ person_centroids' = t.person_centroids
    /\ durable' = IF in_transaction THEN durable ELSE t

\* The coroutine c moves on in its operation, or returns.
Goto(c, pc) == calls' = [calls EXCEPT ![c].pc = pc]
Return(c) == calls' = [calls EXCEPT ![c] = IdleCall]

\* A new catalog operation is entered by a coroutine that is in none.
Enter(c, op, p, pc) ==
    /\ calls[c].pc = "idle"
    /\ calls' = [calls EXCEPT ![c] =
                    [op |-> op, pc |-> pc, person_id |-> p, embedding_id |-> 0,
                     count |-> 0]]

\* create_person: INSERT INTO persons, then db.commit().
create_person(c, p) ==
    /\ p \notin persons
    /\ Enter(c, "create_person", p, "commit")
    /\ Execute([Tables EXCEPT !.persons = @ \cup {p}])
    /\ UNCHANGED <<in_transaction, now, next_embedding_id, added, restarts,
                   pipeline, ingest, beside>>

\* delete_person, first statement: DELETE FROM person_embeddings.
delete_person(c, p) ==
    /\ p \in persons
    /\ Enter(c, "delete_person", p, "delete_centroid")
    /\ Execute([Tables EXCEPT !.person_embeddings = @ \ EmbeddingsOf(@, p)])
    /\ UNCHANGED <<in_transaction, now, next_embedding_id, added, restarts,
                   pipeline, ingest, beside>>

\* delete_person, second statement: DELETE FROM person_centroids.
delete_person_centroid(c) ==
    /\ calls[c].pc = "delete_centroid"
    /\ Execute([Tables EXCEPT !.person_centroids[calls[c].person_id] = 0])
    /\ Goto(c, "delete_row")
    /\ UNCHANGED <<in_transaction, now, next_embedding_id, added, restarts,
                   pipeline, ingest, beside>>

\* delete_person, third statement: DELETE FROM persons.
delete_person_row(c) ==
    /\ calls[c].pc = "delete_row"
    /\ Execute([Tables EXCEPT !.persons = @ \ {calls[c].person_id}])
    /\ Goto(c, "commit")
    /\ UNCHANGED <<in_transaction, now, next_embedding_id, added, restarts,
                   pipeline, ingest, beside>>

\* save_image_result: the upsert of image_results (no registry table is
\* touched), then db.commit().
save_image_result(c) ==
    /\ Enter(c, "save_image_result", 0, "commit")
    /\ UNCHANGED <<tables, durable, in_transaction, now, next_embedding_id,
                   added, restarts, pipeline, ingest, beside>>

\* `await db.commit()` on the shared connection: whatever transaction is
\* open on it is committed.
db_commit(c) ==
    /\ calls[c].pc = "commit"
    /\ durable' = Tables
    /\ in_transaction' = FALSE
    /\ Return(c)
    /\ UNCHANGED <<tables, now, next_embedding_id, added, restarts, pipeline,
                   ingest, beside>>

\* get_db_transaction: `await db.execute("BEGIN")`.  SQLite refuses a BEGIN
\* inside a transaction; that raises out of add_person_embedding before the
\* try block is entered.
get_db_transaction(c, p) ==
    /\ p \in persons
    /\ next_embedding_id <= MaxAdds
    /\ IF in_transaction
       THEN /\ calls[c].pc = "idle"
            /\ UNCHANGED <<calls, in_transaction>>
       ELSE /\ Enter(c, "add_person_embedding", p, "insert")
            /\ in_transaction' = TRUE
    /\ UNCHANGED <<tables, durable, now, next_embedding_id, added, restarts,
                   pipeline, ingest, service,
                   scratch,
                   progress, process_results_all>>

\* add_person_embedding called from outside the matcher (the enrolment of a
\* reference photo).
add_person_embedding(c, p) ==
    /\ get_db_transaction(c, p)
    /\ UNCHANGED matcher

\* INSERT INTO person_embeddings (person_id, embedding, source_type):
\* created_at is the time of the insert.
add_insert(c) ==
    LET row == [embedding_id |-> next_embedding_id,
                person_id |-> calls[c].person_id, created_at |-> now]
    IN /\ calls[c].pc = "insert"
       /\ Execute([Tables EXCEPT !.person_embeddings = @ \cup {row}])
       /\ next_embedding_id' = next_embedding_id + 1
       /\ calls' = [calls EXCEPT ![c].pc = "count",
                                 ![c].embedding_id = next_embedding_id]
       /\ UNCHANGED <<in_transaction, now, added, restarts, pipeline, ingest, beside>>

\* SELECT COUNT(*) FROM person_embeddings WHERE person_id = ?
add_count(c) ==
    LET count == Cardinality(EmbeddingsOf(person_embeddings, calls[c].person_id))
    IN /\ calls[c].pc = "count"
       /\ calls' = [calls EXCEPT
                       ![c].count = count,
                       ![c].pc = IF count > max_embeddings_per_person
                                 THEN "prune" ELSE "centroid_select"]
       /\ UNCHANGED <<tables, durable, in_transaction, now, next_embedding_id,
                      added, restarts, pipeline, ingest, beside>>

\* ORDER BY created_at ASC: a row may come before every row that is not
\* older; the order of rows of equal created_at is not fixed.
oldest_first(x, y) == x.created_at <= y.created_at

\* The sets of rows that `ORDER BY created_at ASC LIMIT excess` can select.
Oldest(rows, excess) ==
    {S \in SUBSET rows :
        /\ Cardinality(S) = Min(excess, Cardinality(rows))
        /\ \A x \in S : \A y \in rows \ S : oldest_first(x, y)}

\* DELETE FROM person_embeddings WHERE embedding_id IN (SELECT ... LIMIT ?)
add_prune(c) ==
    LET p == calls[c].person_id
        excess == calls[c].count - max_embeddings_per_person
    IN /\ calls[c].pc = "prune"
       /\ \E S \in Oldest(EmbeddingsOf(person_embeddings, p), excess) :
            Execute([Tables EXCEPT !.person_embeddings = @ \ S])
       /\ Goto(c, "centroid_select")
       /\ UNCHANGED <<in_transaction, now, next_embedding_id, added, restarts,
                      pipeline, ingest, beside>>

\* _update_centroid: SELECT embedding FROM person_embeddings; with no row
\* the centroid row is deleted.
update_centroid_select(c) ==
    LET p == calls[c].person_id
        rows == EmbeddingsOf(person_embeddings, p)
    IN /\ calls[c].pc = "centroid_select"
       /\ IF rows = {}
          THEN /\ Execute([Tables EXCEPT !.person_centroids[p] = 0])
               /\ Goto(c, "COMMIT")
          ELSE /\ calls' = [calls EXCEPT ![c].count = Cardinality(rows),
                                         ![c].pc = "centroid_upsert"]
               /\ UNCHANGED <<tables, durable>>
       /\ UNCHANGED <<in_transaction, now, next_embedding_id, added, restarts,
                      pipeline, ingest, beside>>

\* _update_centroid: INSERT INTO person_centroids ... ON CONFLICT DO UPDATE
\* with embedding_count = len(rows).
update_centroid_upsert(c) ==
    /\ calls[c].pc = "centroid_upsert"
    /\ Execute([Tables EXCEPT
                    !.person_centroids[calls[c].person_id] = calls[c].count])
    /\ Goto(c, "COMMIT")
    /\ UNCHANGED <<in_transaction, now, next_embedding_id, added, restarts,
                   pipeline, ingest, beside>>

\* get_db_transaction: `await db.execute("COMMIT")`.  With no transaction
\* open any more, COMMIT raises and so does the ROLLBACK of the handler.
transaction_commit(c) ==
    /\ calls[c].pc = "COMMIT"
    /\ durable' = Tables
    /\ in_transaction' = FALSE
    /\ added' = added \cup {[embedding_id |-> calls[c].embedding_id,
                             person_id |-> calls[c].person_id]}
    /\ Return(c)
    /\ UNCHANGED <<tables, now, next_embedding_id, restarts, pipeline, ingest, beside>>

\* Time passes between two statements.
tick ==
    /\ now < MaxClock
    /\ now' = now + 1
    /\ UNCHANGED <<tables, durable, in_transaction, calls, next_embedding_id,
                   added, restarts, pipeline, ingest, beside>>

\* The process dies: its coroutines and its connection are gone, the open
\* transaction with them; the next process opens the file as committed.
registry_crash ==
    /\ restarts < MaxRestarts
    /\ restarts' = restarts + 1
    /\ persons' = durable.persons
    /\ person_embeddings' = durable.person_embeddings
    /\ person_centroids' = durable.person_centroids
    /\ in_transaction' = FALSE
    /\ calls' = [c \in Callers |-> IdleCall]
    /\ UNCHANGED <<durable, now, next_embedding_id, added, pipeline, ingest, beside>>

\* No coroutine is inside a catalog operation.
AllIdle == \A c \in Callers : calls[c].pc = "idle"

\* One step of add_person_embedding by the coroutine c that is in it.
ContinueAdd(c) ==
    \/ add_insert(c)
    \/ add_count(c)
    \/ add_prune(c)
    \/ update_centroid_select(c)
    \/ update_centroid_upsert(c)
    \/ transaction_commit(c)

\* One step of delete_person by the coroutine c that is in it.
ContinueDelete(c) ==
    \/ delete_person_centroid(c)
    \/ delete_person_row(c)

\* add_person_embedding called again and again, one call at a time, for
\* persons that exist.
NextFifo ==
    \/ \E c \in Callers : \E p \in Persons : AllIdle /\ create_person(c, p)
    \/ \E c \in Callers : \E p \in Persons :
          AllIdle /\ add_person_embedding(c, p)
    \/ \E c \in Callers : db_commit(c)
    \/ \E c \in Callers : ContinueAdd(c)
    \/ tick

SpecFifo == Init /\ [][NextFifo]_vars

\* The registry operations one call at a time, and a crash at any point.
NextRegistrySeq ==
    \/ \E c \in Callers : \E p \in Persons : AllIdle /\ create_person(c, p)
    \/ \E c \in Callers : \E p \in Persons : AllIdle /\ delete_person(c, p)
    \/ \E c \in Callers : \E p \in Persons :
          AllIdle /\ add_person_embedding(c, p)
    \/ \E c \in Callers : db_commit(c)
    \/ \E c \in Callers : ContinueAdd(c)
    \/ \E c \in Callers : ContinueDelete(c)
    \/ registry_crash

SpecRegistrySeq == Init /\ [][NextRegistrySeq]_vars

\* The worker process: the persons are seeded, then the coroutines of a chunk
\* learn embeddings and save image results on the shared connection, in any
\* interleaving, with a crash at any point.
NextRegistry ==
    \/ \E c \in Callers : \E p \in Persons : AllIdle /\ create_person(c, p)
    \/ \E c \in Callers : \E p \in Persons : add_person_embedding(c, p)
    \/ \E c \in Callers : save_image_result(c)
    \/ \E c \in Callers : db_commit(c)
    \/ \E c \in Callers : ContinueAdd(c)
    \/ registry_crash

SpecRegistry == Init /\ [][NextRegistry]_vars

\* --------------------------------- worker/runner.py: _heartbeat_loop
\* self._write_heartbeat() of the loop body: the task runs it when it is
\* first scheduled and each time its sleep has elapsed.
heartbeat_write ==
    /\ wpc # "dead"
    /\ heartbeat_pc \in {"created", "due"}
    /\ heartbeat_pc' = "sleep"
    /\ UNCHANGED <<pipeline, ingest, registry, matcher, job_config, naming,
                   start_request,
                   scratch,
                   progress, process_results_all>>

\* Variant: the body runs once, there is no loop around it.
heartbeat_sleep_once ==
    /\ heartbeat_pc = "sleep"
    /\ heartbeat_pc' = "returned"
    /\ UNCHANGED <<pipeline, ingest, registry, matcher, job_config, naming,
                   start_request,
                   scratch,
                   progress, process_results_all>>

\* `await asyncio.sleep(3)` returns and `while self.running` holds.
heartbeat_sleep ==
    /\ wpc # "dead"
    /\ heartbeat_pc = "sleep"
    /\ heartbeat_pc' = "due"
    /\ UNCHANGED <<pipeline, ingest, registry, matcher, job_config, naming,
                   start_request,
                   scratch,
                   progress, process_results_all>>

\* The worker process with its heartbeat task, the operator's commands and
\* errors of the supervisor's awaits.  The event loop runs a task that is
\* ready: every step of the heartbeat task that stays enabled is taken.
NextHeartbeat ==
    \/ NextOps
    \/ run_raises
    \/ reset_error
    \/ heartbeat_write
    \/ heartbeat_sleep

SpecHeartbeatFair ==
    /\ Init
    /\ [][NextHeartbeat]_vars
    /\ WF_vars(heartbeat_write)
    /\ WF_vars(heartbeat_sleep)

\* ---------------------------------------- api/operator.py: start_job
\* The rows job_config can hold: a root is "" (or NULL) until it is set.
RootConfigs ==
    [source_root : {"", "source"}, output_root : {"", "output"},
     selected_person_ids : {{}}, group_mode : {FALSE},
     group_folder_name : {""}]

\* config = await get_job_config()
start_job_config ==
    /\ start_request.pc = "idle"
    /\ ops < MaxOps
    /\ ops' = ops + 1
    /\ start_request' = [NoRequest EXCEPT !.pc = "persons", !.config = job_config]
    /\ UNCHANGED <<catalog, files, wpc, job_initialized, batch, run_job_status,
                   tasks, chunk_start, kills, faults, history, ingest, registry,
                   matcher, job_config, heartbeat_pc, naming,
                   scratch,
                   progress, process_results_all>>

\* persons = await get_all_persons()
start_job_persons ==
    /\ start_request.pc = "persons"
    /\ start_request' = [start_request EXCEPT !.pc = "validate",
                                               !.persons = persons]
    /\ UNCHANGED <<pipeline, ingest, registry, matcher, job_config,
                   heartbeat_pc, naming,
                   scratch,
                   progress, process_results_all>>

\* Variant: the request is not validated.
start_job_valid_always(config, rows) == TRUE

\* The two `raise HTTPException(status_code=400)` tests of start_job.
start_job_valid(config, rows) ==
    /\ config.source_root # ""
    /\ config.output_root # ""
    /\ Cardinality(rows) # 0

\* The validation, then `await set_job_status("running")`.
start_job_validate ==
    /\ start_request.pc = "validate"
    /\ IF start_job_valid(start_request.config, start_request.persons)
       THEN /\ job_status' = "running"
            /\ stop_pending' = 0
            /\ start_request' = [NoRequest EXCEPT !.response = "ok"]
       ELSE /\ start_request' = [NoRequest EXCEPT !.response = "rejected"]
            /\ UNCHANGED <<job_status, stop_pending>>
    /\ UNCHANGED <<batches, image_results, commit_log, files, wpc,
                   job_initialized, batch, run_job_status, tasks, chunk_start,
                   env, clobbered, at_start, ingest, registry, matcher,
                   job_config, heartbeat_pc, naming,
                   scratch,
                   progress, process_results_all>>

\* The job has not been started yet.
NeverStarted == job_status = "configured"

\* The server process: until the job is first started persons are created
\* and deleted and the job is configured, also while a start request is
\* being served; the job is started, stopped and terminated in any order,
\* and the worker process runs undisturbed.
NextStart ==
    \/ \E c \in Callers : \E p \in Persons :
          NeverStarted /\ AllIdle /\ create_person(c, p)
    \/ \E c \in Callers : \E p \in Persons :
          NeverStarted /\ AllIdle /\ delete_person(c, p)
    \/ \E c \in Callers : db_commit(c)
    \/ \E c \in Callers : ContinueDelete(c)
    \/ \E config \in RootConfigs : NeverStarted /\ save_job_config(config)
    \/ start_job_config
    \/ start_job_persons
    \/ start_job_validate
    \/ stop_job
    \/ terminate_job
    \/ Worker
    \/ run_set_stopped

SpecStart == Init /\ [][NextStart]_vars

\* ------------------------------------------------- engine/match.py
\* Distances are L2 distances between unit vectors, in hundredths.
threshold_strict == 80
threshold_loose == 100

\* The distances an embedding can have to a cached centroid.
Distances == {0, 80, 81, 100, 101}

\* The orders in which a SELECT without ORDER BY can return the rows S.
Orders(S) ==
    {s \in [1..Cardinality(S) -> S] :
        \A i, j \in DOMAIN s : i # j => s[i] # s[j]}

\* get_all_centroids: persons JOIN person_centroids, in no stated order.
get_all_centroids == Orders({p \in persons : person_centroids[p] > 0})

\* match, up to its first await: the call takes the embedding of one face;
\* `if self._centroids_cache is None` the cache is loaded first.  Otherwise
\* the list `distances` is built in cache order, with no await in between.
match(c) ==
    /\ matching[c].pc = "idle"
    /\ calls[c].pc = "idle"
    /\ \E face \in [Persons -> Distances] : \E learn \in BOOLEAN :
         matching' = [matching EXCEPT ![c] =
            [IdleMatch EXCEPT
                !.pc = IF centroids_cache = NoCache THEN "refresh" ELSE "sort",
                !.face = face,
                !.learn_on_strict = learn,
                !.distances =
                    IF centroids_cache = NoCache THEN <<>>
                    ELSE [i \in DOMAIN centroids_cache |->
                            <<face[centroids_cache[i]], centroids_cache[i]>>],
                !.missed = IF centroids_cache = NoCache THEN {}
                           ELSE added \ cache_sees]]
    /\ UNCHANGED <<centroids_cache, cache_sees, pipeline, ingest, registry, service,
                   scratch,
                   progress, process_results_all>>

\* refresh_centroids: at the start of match when nothing is cached, and
\* after an embedding was learned.
refresh_centroids(c) ==
    /\ \/ matching[c].pc = "refresh"
       \/ matching[c].pc = "learning" /\ calls[c].pc = "idle"
    /\ \E loaded \in get_all_centroids :
         /\ centroids_cache' = loaded
         /\ cache_sees' = added
         /\ matching' = [matching EXCEPT
               ![c].pc = IF matching[c].pc = "refresh" THEN "sort"
                         ELSE "returned",
               ![c].distances =
                   IF matching[c].pc = "refresh"
                   THEN [i \in DOMAIN loaded |->
                            <<matching[c].face[loaded[i]], loaded[i]>>]
                   ELSE @]
    /\ UNCHANGED <<pipeline, ingest, registry, service,
                   scratch,
                   progress, process_results_all>>

\* distances.sort(key=lambda x: x[0]); distances[0]: the sort is stable, so
\* among entries of equal distance the first in cache order comes first.
closest(distances) ==
    LET min_dist == SetMin({distances[i][1] : i \in DOMAIN distances})
        first == SetMin({i \in DOMAIN distances : distances[i][1] = min_dist})
    IN distances[first]

\* Variant: a distance equal to a threshold falls on its far side.
match_type_below(min_dist) ==
    IF min_dist < threshold_strict THEN "strict"
    ELSE IF min_dist < threshold_loose THEN "loose"
    ELSE "unknown"

\* `if min_dist <= threshold_strict` / `elif min_dist <= threshold_loose`
match_type(min_dist) ==
    IF min_dist <= threshold_strict THEN "strict"
    ELSE IF min_dist <= threshold_loose THEN "loose"
    ELSE "unknown"

\* Variant: every match is learned, whatever learn_on_strict says.
learns_always(type, learn_on_strict) == type = "strict"

\* `if learn_on_strict` inside the strict branch.
learns(type, learn_on_strict) == type = "strict" /\ learn_on_strict

\* match, from the sort to the result: unknown with no person when the cache
\* is empty or the closest centroid is beyond threshold_loose.
match_classify(c) ==
    LET m == matching[c]
        best == closest(m.distances)
        type == IF m.distances = <<>> THEN "unknown" ELSE match_type(best[1])
    IN /\ m.pc = "sort"
       /\ matching' = [matching EXCEPT
             ![c].match_type = type,
             ![c].person_id = IF type = "unknown" THEN 0 ELSE best[2],
             ![c].pc = IF learns(type, m.learn_on_strict) THEN "learn"
                       ELSE "returned"]
       /\ UNCHANGED <<centroids_cache, cache_sees, pipeline, ingest, registry, service,
                   scratch,
                   progress, process_results_all>>

\* `await add_person_embedding(best_match["person_id"], embedding,
\* source_type="learned")`: the BEGIN; when it is refused match raises.
match_learn(c) ==
    /\ matching[c].pc = "learn"
    /\ get_db_transaction(c, matching[c].person_id)
    /\ matching' = [matching EXCEPT
          ![c].pc = IF in_transaction THEN "raised" ELSE "learning"]
    /\ UNCHANGED <<centroids_cache, cache_sees>>

\* The caller has the MatchResult (or the exception) and the coroutine is
\* free for the next face.
match_return(c) ==
    /\ matching[c].pc \in {"returned", "raised"}
    /\ matching' = [matching EXCEPT ![c] = IdleMatch]
    /\ UNCHANGED <<centroids_cache, cache_sees, pipeline, ingest, registry, service,
                   scratch,
                   progress, process_results_all>>

\* One step of a match by the coroutine c that is in it.
ContinueMatch(c) ==
    \/ refresh_centroids(c)
    \/ match_classify(c)
    \/ match_learn(c)
    \/ match_return(c)

\* No coroutine is inside match.
NoMatching == \A c \in Callers : matching[c].pc = "idle"

\* The registry is enrolled (persons and reference embeddings, one call at a
\* time) before the matcher loads it; then faces are matched one at a time.
NextMatch ==
    \/ \E c \in Callers : \E p \in Persons :
          AllIdle /\ centroids_cache = NoCache /\ NoMatching
                  /\ create_person(c, p)
    \/ \E c \in Callers : \E p \in Persons :
          AllIdle /\ centroids_cache = NoCache /\ NoMatching
                  /\ add_person_embedding(c, p)
    \/ \E c \in Callers : db_commit(c)
    \/ \E c \in Callers : ContinueAdd(c)
    \/ \E c \in Callers : AllIdle /\ NoMatching /\ match(c)
    \/ \E c \in Callers : ContinueMatch(c)

SpecMatch == Init /\ [][NextMatch]_vars

\* ------------------- engine/batch_engine.py: the matching of a chunk
\* process_batch: `await self.matcher.refresh_centroids()` before the
\* coroutines of the batch are created.
process_batch_refresh ==
    /\ centroids_cache = NoCache
    /\ AllIdle
    /\ NoMatching
    /\ centroids_cache' \in get_all_centroids
    /\ cache_sees' = added
    /\ UNCHANGED <<matching, pipeline, ingest, registry, service,
                   scratch,
                   progress, process_results_all>>

\* process_and_commit_single after the match of the face of its image: a
\* matched image is committed to the folder of the person, an image with no
\* match is only recorded, and when match has raised `except Exception`
\* returns an error result, with no row and no file for the image.
process_and_commit_single(c) ==
    /\ matching[c].pc \in {"returned", "raised"}
    /\ matching' = [matching EXCEPT ![c].pc =
          IF matching[c].pc = "raised" THEN "failed"
          ELSE IF matching[c].match_type \in {"strict", "loose"} THEN "routed"
          ELSE "skipped"]
    /\ UNCHANGED <<centroids_cache, cache_sees, pipeline, ingest, registry, service,
                   scratch,
                   progress, process_results_all>>

\* The faces of the images of the chunk: to each person a strict, a loose or
\* no match.
ChunkFaces == [Persons -> {0, threshold_loose, threshold_loose + 1}]

\* The registry is enrolled; then process_batch loads the cache and the
\* coroutines of one chunk, one image with one face each, match in parallel
\* with learn_on_strict=True, in any interleaving of their awaits.
NextLearn ==
    \/ \E c \in Callers : \E p \in Persons :
          AllIdle /\ centroids_cache = NoCache /\ create_person(c, p)
    \/ \E c \in Callers : \E p \in Persons :
          AllIdle /\ centroids_cache = NoCache /\ add_person_embedding(c, p)
    \/ \E c \in Callers : db_commit(c)
    \/ \E c \in Callers : ContinueAdd(c)
    \/ process_batch_refresh
    \/ \E c \in Callers :
          /\ centroids_cache # NoCache
          /\ match(c)
          /\ matching'[c].learn_on_strict
          /\ matching'[c].face \in ChunkFaces
    \/ \E c \in Callers : refresh_centroids(c)
    \/ \E c \in Callers : match_classify(c)
    \/ \E c \in Callers : match_learn(c)
    \/ \E c \in Callers : process_and_commit_single(c)

SpecLearn == Init /\ [][NextLearn]_vars

\* ------------------------------------------------------------ claims
\* The paths under output_root at which a file exists.
ExistingPaths == {d \in OutputPaths : outfs[d] # "absent"}

\* The output of one uninterrupted run: one copy per image and matched person.
UninterruptedOutputs ==
    UNION {{output_path(p, im) : p \in FaceMatch(im)} : im \in Images}

\* Every matched target of image im is in place.
Committed(im) ==
    \A p \in matched_person_ids(im) : outfs[output_path(p, im)] = "complete"

\* C1: once the job is completed, however often the worker was killed and
\* restarted on the way, the set of paths under output_root is the set an
\* uninterrupted run produces.
C1_CrashConvergence ==
    job_status = "completed" => ExistingPaths = UninterruptedOutputs

\* C2: the commit of an image all of whose targets are in place already
\* creates no file, changes no file and reports every target as skipped or
\* as existing, never as an error.
C2_SecondCommitIsNoOp ==
    [][\A im \in Images :
          (tasks[im].again /\ tasks'[im] # tasks[im] /\ tasks'[im].pc # "idle")
          => /\ outfs' = outfs
             /\ clobbered' = clobbered
             /\ {o[2] : o \in tasks'[im].outcomes} \subseteq {"skipped", "exists"}]_vars

\* A second commit has run to its end over more than one target.
C2_Witness ==
    \E im \in Images :
        /\ tasks[im].again
        /\ tasks[im].pc = "done"
        /\ Cardinality(matched_person_ids(im)) > 1
        /\ tasks[im].outcomes # {}

\* C3: no write under output_root goes to a path at which a file exists.
C3_NeverOverwrite == clobbered = {}

ChainSteps ==
    {<<"PENDING", "PROCESSING">>, <<"PROCESSING", "COMMITTING">>,
     <<"COMMITTING", "COMMITTED">>}

\* The state changes of the rows that exist before and after the step.
StateChanges ==
    {<<batches[b].state, batches'[b].state>> :
        b \in {c \in DOMAIN batches \cap DOMAIN batches' :
                  batches'[c].state # batches[c].state}}

C5_CommittedIsTerminal ==
    [][\A b \in DOMAIN batches \cap DOMAIN batches' :
          batches[b].state = "COMMITTED" => batches'[b].state = "COMMITTED"]_vars

ResumePcs == {"resume", "resume_commit", "resume_gather"}

\* C6: when _resume_interrupted returns, every batch the worker found
\* PROCESSING at its start is PENDING and no batch is PROCESSING.
C6_ResumeResetsProcessing ==
    [][(wpc \in ResumePcs /\ wpc' = "loop")
          => /\ \A b \in at_start.processing : batches'[b].state = "PENDING"
             /\ \A b \in DOMAIN batches' : batches'[b].state # "PROCESSING"]_vars

\* A worker that was killed in the middle of a batch has finished its resume.
C6_Witness ==
    /\ wpc = "loop"
    /\ kills > 0
    /\ at_start.processing # {}
    /\ \A b \in at_start.processing :
          b \in DOMAIN batches /\ batches[b].state = "PENDING"

C8_CompletedMeansAllCopied ==
    job_status = "completed" =>
        \A im \in Images : \A p \in FaceMatch(im) :
            outfs[output_path(p, im)] = "complete"

C10_StopAtBatchBoundary ==
    [][(stop_pending # 0 /\ stop_pending' = stop_pending)
          => /\ stop_pending \in DOMAIN batches \cap DOMAIN batches'
             /\ \A t \in StateChanges :
                   /\ t = <<"PROCESSING", "COMMITTED">>
                   /\ \A im \in get_images_for_batch(stop_pending) :
                         image_results[im].saved /\ Committed(im)
             /\ (wpc \in {"chunk", "gather", "stamp"} /\ wpc' = "job_progress")
                   => batches'[stop_pending].state = "COMMITTED"
             /\ wpc' \in {"chunk", "gather", "stamp", "job_progress", "loop"}]_vars

\* The batch during which the stop came is COMMITTED, the worker is back at
\* the top of its loop, and a PENDING batch waits for the next start.
C10_Witness ==
    /\ stop_pending \in DOMAIN batches
    /\ batches[stop_pending].state = "COMMITTED"
    /\ job_status = "stopped"
    /\ wpc = "loop"
    /\ \E b \in DOMAIN batches : batches[b].state = "PENDING"

C12_TerminateLeadsToStopped ==
    \A k \in 1..MaxOps :
        (job_status = "terminating" /\ ops = k)
            ~> (job_status = "stopped" \/ ops # k)

\* C13: whenever the supervisor is at the top of its loop, no batch is in
\* PROCESSING.
C13_NoProcessingAtLoopTop ==
    wpc = "loop" => get_batches_by_state("PROCESSING") = {}

\* C14: a batch goes from PENDING to PROCESSING, and the old rows are cleared
\* and the images discovered, only in an iteration of the supervisor's loop in
\* which the status it read was running; after reading any other status the
\* supervisor is back at the top of its loop or about to write stopped (or
\* the process has been killed).
C14_StartOnlyAfterReadingRunning ==
    [][/\ (\E b \in DOMAIN batches \cap DOMAIN batches' :
              /\ batches[b].state = "PENDING"
              /\ batches'[b].state = "PROCESSING")
            => run_job_status = "running"
       /\ (wpc \in {"clear", "discover"} /\ wpc' \in {"discover", "get_pending"})
            => run_job_status = "running"
       /\ (wpc = "loop" /\ run_job_status' # "running")
            => wpc' \in {"loop", "set_job_status", "dead"}]_vars

\* The supervisor has just set a batch to PROCESSING on a status it read as
\* running, although the operator has stopped the job since.
C14_Witness ==
    /\ wpc = "chunk"
    /\ batches[batch].state = "PROCESSING"
    /\ run_job_status = "running"
    /\ job_status = "stopped"

\* C15: once the job is running, eventually every batch of the job is
\* COMMITTED and job_status is completed.
C15_RunningLeadsToCompleted ==
    (job_status = "running")
        ~> (/\ job_status = "completed"
            /\ DOMAIN batches = DOMAIN create_batches(NumImages, BatchSize)
            /\ \A b \in DOMAIN batches : batches[b].state = "COMMITTED")

\* The worker has written completed with every batch COMMITTED and every
\* image copied to the folders of its persons.
C15_Witness ==
    /\ job_status = "completed"
    /\ wpc = "loop"
    /\ DOMAIN batches = DOMAIN create_batches(NumImages, BatchSize)
    /\ \A b \in DOMAIN batches : batches[b].state = "COMMITTED"
    /\ \A im \in Images : Committed(im)

\* C16: whenever a batch enters PROCESSING, every batch of the job with a
\* smaller batch_id is COMMITTED.
C16_AscendingDispatch ==
    [][\A b \in DOMAIN batches \cap DOMAIN batches' :
          (batches[b].state # "PROCESSING" /\ batches'[b].state = "PROCESSING")
            => \A c \in 1..(b - 1) : batches'[c].state = "COMMITTED"]_vars

\* The number of images of batch k.
BatchLen(k) == batches[k].end_idx - batches[k].start_idx + 1

\* C17: for n >= 1 images and batch size s >= 1 the ranges cut by
\* create_batches are pairwise disjoint, contiguous and cover exactly
\* [0, n-1]; every batch but the last holds s images, the last between 1
\* and s; for n = 0 there is no batch.
C17_BatchesPartition ==
    wpc = "get_pending" =>
        LET last == Len(batches)
        IN /\ n_images = 0 => batches = <<>>
           /\ n_images >= 1 =>
                /\ last >= 1
                /\ batches[1].start_idx = 0
                /\ batches[last].end_idx = n_images - 1
                /\ \A k \in 1..(last - 1) :
                      /\ batches[k + 1].start_idx = batches[k].end_idx + 1
                      /\ BatchLen(k) = atomic_batch_size
                /\ \A j, k \in 1..last :
                      j # k => \/ batches[j].end_idx < batches[k].start_idx
                               \/ batches[k].end_idx < batches[j].start_idx
                /\ BatchLen(last) >= 1
                /\ BatchLen(last) <= atomic_batch_size

\* Several batches have been cut and the last one is short.
C17_Witness ==
    /\ wpc = "get_pending"
    /\ Len(batches) >= 3
    /\ BatchLen(Len(batches)) < atomic_batch_size
    /\ BatchLen(1) = atomic_batch_size

\* The embedding_id of the rows of person p in a table of embeddings.
IdsOf(rows, p) == {e.embedding_id : e \in EmbeddingsOf(rows, p)}

\* C18: after N finished add_person_embedding calls for a person the person
\* has min(N, max_embeddings_per_person) embeddings, and an embedding that
\* was added and is gone has max_embeddings_per_person later ones present.
C18_FifoKeepsMostRecent ==
    AllIdle =>
        \A p \in persons :
            LET ids == IdsOf(added, p)
                present == IdsOf(person_embeddings, p)
            IN /\ Cardinality(present)
                    = Min(Cardinality(ids), max_embeddings_per_person)
               /\ \A i \in ids \ present :
                     Cardinality({j \in present : j > i})
                        >= max_embeddings_per_person

\* C19: in the committed registry a person has a centroid row exactly when it
\* has an embedding, and embedding_count is the number of its embeddings.
C19_CentroidMatchesEmbeddings ==
    \A p \in Persons :
        durable.person_centroids[p]
            = Cardinality(EmbeddingsOf(durable.person_embeddings, p))

\* C20: while an add_person_embedding is between its insert and its COMMIT,
\* the committed registry does not hold the embedding it inserted.
C20_AddIsAtomic ==
    \A c \in Callers :
        (/\ calls[c].op = "add_person_embedding"
         /\ calls[c].pc \in {"count", "prune", "centroid_select",
                             "centroid_upsert", "COMMIT"})
            => calls[c].embedding_id
                  \notin IdsOf(durable.person_embeddings, calls[c].person_id)

\* The coroutine c has the result of its match; the smallest distance in
\* the list the result was taken from.
Classified(c) == matching[c].match_type # "none"
MinDistance(c) ==
    SetMin({matching[c].distances[i][1] : i \in DOMAIN matching[c].distances})

\* C21: over a non-empty cache match returns strict when the minimum distance
\* d is at most 0.80, loose when 0.80 < d <= 1.00 and unknown when d > 1.00,
\* the person returned being one at distance d; over an empty cache it
\* returns unknown with no person.
C21_ThresholdsDecideType ==
    \A c \in Callers :
        Classified(c) =>
            LET m == matching[c]
            IN IF m.distances = <<>>
               THEN m.match_type = "unknown" /\ m.person_id = 0
               ELSE LET d == MinDistance(c)
                    IN /\ (d <= threshold_strict) => m.match_type = "strict"
                       /\ (d > threshold_strict /\ d <= threshold_loose)
                             => m.match_type = "loose"
                       /\ (d > threshold_loose)
                             => m.match_type = "unknown" /\ m.person_id = 0
                       /\ (d <= threshold_loose)
                             => \E i \in DOMAIN m.distances :
                                   m.distances[i] = <<d, m.person_id>>

\* A face whose closest centroid is at exactly 0.80, among two cached.
C21_Witness ==
    \E c \in Callers :
        /\ Classified(c)
        /\ Len(matching[c].distances) = 2
        /\ MinDistance(c) = threshold_strict
        /\ matching[c].match_type = "strict"

\* C22: when several cached centroids are at the minimum distance, match
\* returns the one of smallest person_id, in whatever order they were loaded.
C22_TieGoesToSmallestId ==
    \A c \in Callers :
        (Classified(c) /\ matching[c].match_type # "unknown") =>
            matching[c].person_id =
                SetMin({matching[c].distances[i][2] :
                          i \in {j \in DOMAIN matching[c].distances :
                                   matching[c].distances[j][1] = MinDistance(c)}})

\* C23: once the matcher has loaded the registry, a step changes a registry
\* table only inside the add_person_embedding of a match whose result is
\* strict and whose learn_on_strict is set; that call inserts one row, for
\* the matched person, and no row or centroid of another person changes.  A
\* match that is loose, unknown or not learning changes nothing.
C23_MatchLearnsOnlyOnStrict ==
    [][(centroids_cache # NoCache) =>
        /\ (tables' # tables) =>
              \E c \in Callers :
                 LET m == matching[c]
                     new == person_embeddings' \ person_embeddings
                 IN /\ m.pc = "learning"
                    /\ calls[c].op = "add_person_embedding"
                    /\ calls[c].person_id = m.person_id
                    /\ m.match_type = "strict"
                    /\ m.learn_on_strict
                    /\ persons' = persons
                    /\ \A q \in Persons \ {m.person_id} :
                          /\ EmbeddingsOf(person_embeddings', q)
                                = EmbeddingsOf(person_embeddings, q)
                          /\ person_centroids'[q] = person_centroids[q]
                    /\ new # {} =>
                          /\ calls[c].embedding_id = 0
                          /\ Cardinality(new) = 1
                          /\ \A e \in new : e.person_id = m.person_id
        /\ \A c \in Callers :
              (/\ matching[c].pc = "learning"
               /\ calls[c].pc = "COMMIT"
               /\ calls'[c].pc = "idle")
                 => /\ calls[c].embedding_id # 0
                    /\ \E e \in added' \ added :
                          /\ e.person_id = matching[c].person_id
                          /\ e.embedding_id = calls[c].embedding_id
       ]_vars

\* A strict match has been learned and has returned.
C23_Witness ==
    \E c \in Callers :
        /\ matching[c].pc = "returned"
        /\ matching[c].match_type = "strict"
        /\ matching[c].learn_on_strict
        /\ \E e \in added :
              /\ e.person_id = matching[c].person_id
              /\ e.embedding_id = next_embedding_id - 1

\* The image im has been through process_and_commit_single.
Processed(im) == image_results[im].saved /\ tasks[im].pc \in {"done", "idle"}

\* C24: in group mode with a non-empty selected_person_ids, a processed image
\* all of whose selected persons were matched has exactly one file, the one
\* under output_root/group_folder_name, and none under a person folder; any
\* other processed image has matched_count 0 and no file at all.
C24_GroupModeAllOrNothing ==
    (job_config.group_mode /\ job_config.selected_person_ids # {}) =>
        \A im \in Images :
            Processed(im) =>
                IF job_config.selected_person_ids \subseteq FaceMatch(im)
                THEN /\ outfs[<<0, OutputFilename(im), "jpg">>] = "complete"
                     /\ \A p \in Persons :
                           outfs[output_path(p, im)] = "absent"
                ELSE /\ matched_person_ids(im) = {}
                     /\ \A f \in Folders :
                           outfs[<<f, OutputFilename(im), "jpg">>] = "absent"

\* C25: when route_image has returned for an image, it has one outcome for
\* each matched person, whether or not a target failed on the way, and every
\* target whose outcome is not an error has its file.
C25_FailedTargetDoesNotStopFanout ==
    \A im \in Images :
        (tasks[im].pc = "done" /\ matched_person_ids(im) # {}) =>
            /\ {o[1] : o \in tasks[im].outcomes} = matched_person_ids(im)
            /\ Cardinality(tasks[im].outcomes)
                  = Cardinality(matched_person_ids(im))
            /\ \A o \in tasks[im].outcomes :
                  o[2] # "error" => outfs[output_path(o[1], im)] = "complete"

\* The first target of an image failed and a later one was written.
C25_Witness ==
    \E im \in Images : \E p, q \in matched_person_ids(im) :
        /\ tasks[im].pc = "done"
        /\ p < q
        /\ <<p, "error">> \in tasks[im].outcomes
        /\ <<q, "success">> \in tasks[im].outcomes
        /\ outfs[output_path(q, im)] = "complete"

\* The image im could not be decoded or analysed: its row has no face.
Unreadable(im) == image_results[im].saved /\ image_results[im].face_count = 0

\* The batch of image im is COMMITTED and every image of it has its row.
BatchDone(im) ==
    \E b \in DOMAIN batches :
        /\ im \in get_images_for_batch(b)
        /\ batches[b].state = "COMMITTED"
        /\ \A j \in get_images_for_batch(b) : image_results[j].saved

\* C26: an image whose decoding or face detection fails gets a row, with
\* face_count = matched_count = unknown_count = 0; its coroutine routes
\* nothing, and from then on the other images of its batch are processed and
\* the batch becomes COMMITTED.
C26_UnreadableImageIsSkipped ==
    /\ [](\A im \in Images :
            Unreadable(im) =>
                /\ Cardinality(image_results[im].matched_person_ids) = 0
                /\ image_results[im].unknown_count = 0
                /\ tasks[im].pc \in {"done", "idle"}
                /\ tasks[im].outcomes = {}
                /\ (\A j \in Images \ {im} :
                        OutputFilename(j) # OutputFilename(im))
                      => \A f \in Folders :
                            /\ outfs[<<f, OutputFilename(im), "jpg">>] = "absent"
                            /\ outfs[<<f, OutputFilename(im), "tmp">>] = "absent")
    /\ [][\A im \in Images :
            (/\ tasks[im].pc = "analyze"
             /\ tasks'[im].pc = "done"
             /\ faults' # faults)
               => (image_results'[im].saved /\ Unreadable(im)')]_vars
    /\ \A im \in Images : Unreadable(im) ~> BatchDone(im)

\* An image of a committed batch was unreadable and another image of that
\* batch has its files.
C26_Witness ==
    \E im \in Images : \E b \in DOMAIN batches :
        /\ Unreadable(im)
        /\ im \in get_images_for_batch(b)
        /\ batches[b].state = "COMMITTED"
        /\ \E j \in get_images_for_batch(b) \ {im} :
              /\ matched_person_ids(j) # {}
              /\ Committed(j)

\* C27: the output name is made of the stem and of the first 12 characters
\* of the digest, and of nothing else: two sources of equal stem whose digests
\* agree on their first 12 characters get the same name.
C27_NameFromStemAndHashPrefix ==
    naming.names # <<>> =>
        /\ \A i \in DOMAIN naming.names :
              naming.names[i]
                  = <<naming.stems[i], SubSeq(naming.hashes[i], 1, hash_chars)>>
        /\ \A i, j \in DOMAIN naming.names :
              (/\ naming.stems[i] = naming.stems[j]
               /\ SubSeq(naming.hashes[i], 1, hash_chars)
                     = SubSeq(naming.hashes[j], 1, hash_chars))
                 => naming.names[i] = naming.names[j]

\* Two sources of one stem whose digests differ after the 12th character
\* only have been given one name.
C27_Witness ==
    /\ naming.names # <<>>
    /\ naming.hashes[1] # naming.hashes[2]
    /\ naming.names[1] = naming.names[2]

\* C28: job_status becomes running only in the last step of a start request
\* that is answered ok; a start request that has read no person, or a
\* job_config without source_root or output_root, is rejected and leaves
\* job_status as it is.
C28_RunningOnlyThroughValidStart ==
    [][/\ (job_status' = "running" /\ job_status # "running")
            => (/\ start_request.pc = "validate"
                /\ start_request'.response = "ok")
       /\ (/\ start_request.pc = "validate"
           /\ start_request'.pc = "idle"
           /\ \/ start_request.persons = {}
              \/ start_request.config.source_root = ""
              \/ start_request.config.output_root = "")
            => (/\ start_request'.response = "rejected"
                /\ job_status' = job_status)
      ]_vars

\* A stopped job with an empty registry was asked to start: the request was
\* rejected and the job is still stopped.
C28_Witness ==
    /\ start_request.response = "rejected"
    /\ persons = {}
    /\ job_status = "stopped"

\* C29: the heartbeat task exists when the resume procedure starts, no step
\* of the supervisor or of a coroutine of a batch moves it, and it writes a
\* heartbeat again and again, for ever, whatever the supervisor does.
C29_HeartbeatInfinitelyOften ==
    /\ [](wpc = "resume" => heartbeat_pc \in {"created", "due", "sleep"})
    /\ [][(heartbeat_pc' # heartbeat_pc) => UNCHANGED pipeline]_vars
    /\ []<>(heartbeat_pc = "sleep")
    /\ []<>(heartbeat_pc = "due")

\* A heartbeat has been written while a coroutine of a batch was about to
\* copy a file.
C29_Witness ==
    /\ heartbeat_pc = "sleep"
    /\ wpc = "gather"
    /\ \E im \in Images : tasks[im].pc = "route_copy"

\* C30: when every coroutine of the chunk has finished, the images that have
\* an output file are those whose face is within threshold_loose of a cached
\* centroid, however the coroutines interleaved.
C30_OutputsIndependentOfInterleaving ==
    (\A c \in Callers : matching[c].pc \in {"routed", "skipped", "failed"}) =>
        \A c \in Callers :
            matching[c].pc = "routed"
                <=> (/\ matching[c].distances # <<>>
                     /\ MinDistance(c) <= threshold_loose)

C32_MatchSeesEveryFinishedAdd ==
    \A c \in Callers : matching[c].missed = {}

\* C33: a step that creates or writes a file under output_root is taken only
\* while no batch row is in state PROCESSING.
C33_NoOutputWriteWhileProcessing ==
    [][(outfs' # outfs) =>
          \A b \in DOMAIN batches : batches[b].state # "PROCESSING"]_vars

\* C34: every file of the scratch directory is the temporary JPEG of a call
\* of _process_image that has not returned yet; once the call has returned
\* or raised, its temporary file is gone.
C34_TempFileDoesNotSurviveCall ==
    \A f \in temp_files :
        \E im \in Images : tasks[im].pc = "analyze" /\ temp_path[im] = f

\* Two images have been converted and analysed, one of them with a failure,
\* and the scratch directory is empty again.
C34_Witness ==
    /\ temp_files = {}
    /\ faults > 0
    /\ \E im \in raw_images : image_results[im] = ZeroFaceResult
    /\ \E im \in raw_images : image_results[im].saved /\ image_results[im].face_count > 0

\* C35: a staged artifact is in the staging directory only while the commit
\* of an image with that name is going on; once process_batch has returned
\* the staging directory holds no artifact.
C35_StagedFileDeletedAfterCommit ==
    /\ staging \subseteq {OutputFilename(im) : im \in
                            {j \in Images : tasks[j].pc \in CommitPcs}}
    /\ wpc \in {"loop", "stamp", "job_progress"} => staging = {}

\* Images 1 and 2 share their staged file and were committed in parallel:
\* one of them found the file deleted by the other, and nothing is staged.
C35_Witness ==
    /\ wpc = "stamp"
    /\ faults = 0
    /\ tasks[1].pc = "done" /\ tasks[2].pc = "done"
    /\ "error" \in Statuses(1) \cup Statuses(2)
    /\ "success" \in Statuses(1) \cup Statuses(2)
    /\ staging = {}

\* C36: the images inside the analysis section are never more than the
\* capacity get_worker_count gives, that capacity is between 1 and the number
\* of CPUs under every policy, and with parallel processing disabled at most
\* one image is inside.
C36_AnalysisBoundedBySemaphore ==
    LET inside == Cardinality({im \in Images : tasks[im].pc = "analyze"})
    IN /\ inside <= get_worker_count
       /\ get_worker_count \in 1..settings.cpu_count
       /\ ~ settings.enable_parallel_processing => inside <= 1

\* Parallel processing is enabled on one core: one image of the chunk is
\* being analysed while the other waits for the semaphore.
C36_Witness ==
    /\ settings.enable_parallel_processing
    /\ settings.cpu_usage_mode = "low"
    /\ settings.cpu_count = 1
    /\ \E im, j \in Images : tasks[im].pc = "analyze" /\ tasks[j].pc = "wait"

\* C37: no file the worker has created lies under source_root.
C37_SourceTreeUntouched ==
    \A f \in WrittenFiles :
        ~ is_relative_to(f, resolve(job_config.source_root))

\* C38: the supervisor's set_job_status("stopped") replaces "terminating"
\* only and its set_job_status("completed") replaces "running" only, so that
\* no status the operator wrote since the supervisor's last read is lost.
C38_WorkerWritesOnlyOverItsRead ==
    [][/\ (wpc = "set_job_status" /\ wpc' = "loop" /\ ops' = ops)
            => job_status = "terminating"
       /\ (wpc = "set_completed" /\ wpc' = "loop" /\ ops' = ops)
            => job_status = "running"]_vars

\* C39: the matched_person_ids of a saved result hold no person outside a
\* non-empty selected_person_ids, and a step that writes a file into the
\* folder of a person is taken for an image whose saved result names that
\* person.
C39_WritesOnlyForMatchedSelectedPersons ==
    /\ [](\A im \in Images :
            job_config.selected_person_ids # {} =>
                image_results[im].matched_person_ids
                    \subseteq job_config.selected_person_ids)
    /\ [][\A d \in OutputPaths :
            (d[1] \in Persons /\ d[3] = "jpg" /\ outfs'[d] # outfs[d]) =>
                \E im \in Images :
                    /\ OutputFilename(im) = d[2]
                    /\ image_results[im].saved
                    /\ d[1] \in image_results[im].matched_person_ids]_vars

\* Only person 1 is selected: image 1, which shows persons 1 and 2, has its
\* file in the folder of person 1 and none in the folder of person 2.
C39_Witness ==
    /\ job_config.selected_person_ids = {1}
    /\ ~ job_config.group_mode
    /\ image_results[1].matched_person_ids = {1}
    /\ outfs[output_path(1, 1)] = "complete"
    /\ outfs[output_path(2, 1)] = "absent"
    /\ wpc = "set_completed"

\* C40: after every progress update the row of the job has
\* 0 <= processed_images <= total_images, and once every batch of the job
\* is COMMITTED and the update that follows the last stamp has been made,
\* processed_images equals total_images.
C40_ProcessedImagesReachTotal ==
    /\ 0 <= jobs.processed_images
    /\ jobs.processed_images <= jobs.total_images
    /\ (/\ DOMAIN batches # {}
        /\ \A b \in DOMAIN batches : batches[b].state = "COMMITTED"
        /\ wpc # "job_progress")
       => jobs.processed_images = jobs.total_images

====
